---------------------------- MODULE Spec2Model ----------------------------
(***************************************************************************)
(* Pump control subsystem of sugar_house_monitor:                          *)
(*   scripts/main_pump.py      PumpState, PumpController, PumpRelay,       *)
(*                             PumpRelayWorker                             *)
(*   scripts/pump_controller.py CachedSignalReader, ControllerService      *)
(* Spec and SpecRelay are the controller loop and the relay loop of a      *)
(* started service; SpecSvc adds start(), stop() and the watchdog.         *)
(* Time is a discrete clock of whole seconds; time.time() and              *)
(* time.monotonic() both read it.  An optional timestamp that is None in   *)
(* the source is the value None below.                                     *)
(***************************************************************************)
EXTENDS Integers, Sequences, FiniteSets, TLC

\* ------------------------------------------------------------------ bounds
\* The clock runs from 0 to MaxTime.
MaxTime == 3
\* error_threshold is configured in 0 .. MaxThreshold (seconds).
MaxThreshold == 2
\* adc_stale_fatal_seconds and control_hold_seconds of the modelled
\* configuration (seconds).
StaleFatalSeconds == 2
AdcStaleSeconds == 1
HoldSeconds == 1

None == -1

VARIABLES
    clock,                \* the time read by time.time() / time.monotonic()
    error_threshold,      \* PumpController.error_threshold
    adc_stale_fatal_seconds, \* PumpController.adc_stale_fatal_seconds
    control_hold_seconds, \* PumpController.control_hold_seconds
    state,                \* PumpController.state : PumpState (control fields)
    error_log,            \* PumpState.last_error_message / last_error_log_time
    observe_log,          \* whether the specification observes the log-dedup fields
    sink_faults,          \* which insert_pump_event call of a handler may raise (0: none)
    control_hold_start,   \* PumpController._control_hold_start
    control_hold_fired,   \* PumpController._control_hold_fired
    signals,              \* the snapshot read by the running poll (local of _run)
    ctl_pc,               \* position of PumpController._run inside one poll
    hold_actions,         \* control-hold actions invoked by the latest poll
    events,               \* pump events handed to insert_pump_event by the latest poll
    episode_fatal_events, \* "Fatal Error" events emitted since the last clear-fatal
    log_sink,             \* messages forwarded to the log sink by the latest poll
    relay_pc,             \* position of PumpRelayWorker._run inside one tick
    relay_snap,           \* the PumpState snapshot of the running relay tick
    relay_cmd,            \* last value passed to PumpRelay.set_state
    gpio,                 \* the relay pin: [setup, level]
    svc_stop_event,       \* ControllerService.stop_event / PumpApp.stop_event
    ctl_stop_event,       \* PumpController.stop_event
    relay_stop_event,     \* PumpRelayWorker.stop_event
    stop_pc,              \* position of the main thread: start() and stop()
    wd_pc,                \* position of _watchdog_loop inside one iteration
    wd_log,               \* last message the watchdog appended to the error log
    sd_pending,           \* _run_systemd_setup threads spawned and not yet at the lock, per mode
    sd_running,           \* the mode whose thread holds _systemd_lock, or "none"
    poll_obs,             \* history: what get_state returned before and during the running poll
    cache,                \* the payload of the ADC cache file
    pins,                 \* the physical control inputs when the cache was written
    reader_out,           \* what the latest CachedSignalReader.read_signals call gave
    bool_buffers,         \* adc_service.main: bool_buffers, the sliding window of raw samples per channel
    direct_read,          \* the raw samples and the result of the latest MCP3008Reader.read_signals call
    pump_db,              \* PumpDatabase: the rows of pump_events, and the latest record handed to insert_pump_event
    sink_entries          \* history: the payloads insert_error_log received, with their timestamps

vars == <<clock, error_threshold, adc_stale_fatal_seconds, control_hold_seconds,
          state, error_log, observe_log, sink_faults, control_hold_start, control_hold_fired,
          signals, ctl_pc,
          hold_actions, events, episode_fatal_events, log_sink,
          relay_pc, relay_snap, relay_cmd, gpio,
          svc_stop_event, ctl_stop_event, relay_stop_event, stop_pc, wd_pc, wd_log,
          sd_pending, sd_running, poll_obs, cache, pins, reader_out, bool_buffers, direct_read, pump_db, sink_entries>>

cfg_vars == <<error_threshold, adc_stale_fatal_seconds, control_hold_seconds, observe_log,
              sink_faults>>
relay_vars == <<relay_pc, relay_snap, relay_cmd, gpio>>
hold_vars == <<control_hold_start, control_hold_fired>>
svc_vars == <<svc_stop_event, ctl_stop_event, relay_stop_event, stop_pc, wd_pc, wd_log>>
sd_vars == <<sd_pending, sd_running>>
cache_vars == <<cache, pins, reader_out>>

\* ------------------------------------------------------------- data model
States == {"not_pumping", "pumping", "manual_pumping"}
ActiveStates == {"pumping", "manual_pumping"}
HoldChannels == {"service_on", "service_off", "clear_fatal"}
SignalNames == {"tank_full", "manual_start", "tank_empty"} \cup HoldChannels

\* The modes of systemd_setup.sh and the hold channel bound to each
\* (_handle_control_holds, lines 664-668).
Modes == {"on", "off"}
HoldChannelOf(mode) == IF mode = "on" THEN "service_on" ELSE "service_off"

NoMessage == [fatal |-> FALSE, text |-> ""]

PumpState ==
    [current_state |-> "not_pumping",
     fatal_error |-> FALSE,
     fatal_sent |-> FALSE,
     pump_start_time |-> None,
     pump_end_time |-> None,
     last_stop_time |-> None,
     last_fill_time |-> None,
     last_flow_rate |-> None,
     error_started_at |-> None,
     last_error_count_logged |-> None,
     adc_stale_started_at |-> None]

\* The log-dedup fields of PumpState.  No branch of the controller reads them
\* outside _record_error, so they are kept apart from the control fields.
ErrorLog == [last_error_message |-> NoMessage, last_error_log_time |-> None]

Max0(x) == IF x < 0 THEN 0 ELSE x

\* A context threads the PumpState, the events handed to the event sink and
\* the messages handed to the log sink through one handler.  fail_at is the
\* insert_pump_event call of the handler that raises (0: none); raised tells
\* that it has raised, after which the handler assigns nothing more.
CtxF(st, el, fail_at) ==
    [st |-> st, el |-> el, ev |-> <<>>, log |-> <<>>, fail_at |-> fail_at, raised |-> FALSE]

Ctx(st, el) == CtxF(st, el, 0)

\* The statements that follow a call: skipped when the call has raised.
Unless(cx, next) == IF cx.raised THEN cx ELSE next

PumpEvent(type, now, run, interval, gph) ==
    [event_type |-> type, source_timestamp |-> now, pump_run_time_s |-> run,
     pump_interval_s |-> interval, gallons_per_hour |-> gph]

insert_pump_event(cx, payload) ==
    IF cx.fail_at = Len(cx.ev) + 1
    THEN [cx EXCEPT !.raised = TRUE]
    ELSE [cx EXCEPT !.ev = Append(@, payload)]

\* ------------------------------------------------- PumpController helpers
_format_error_message(st, message) ==
    [fatal |-> st.fatal_error, text |-> message]

_record_error(cx, message, now) ==
    LET m == _format_error_message(cx.st, message)
        last == cx.el.last_error_log_time
    IN  IF m /= cx.el.last_error_message
        THEN [cx EXCEPT !.el.last_error_message = m,
                        !.el.last_error_log_time = now,
                        !.log = Append(@, m)]
        ELSE IF last = None \/ (now - last) >= 1
             THEN [cx EXCEPT !.el.last_error_log_time = now,
                             !.log = Append(@, m)]
             ELSE cx

_handle_fatal(cx, now) ==
    LET c1 == IF ~cx.st.fatal_error
              THEN _record_error(
                       [cx EXCEPT !.st.fatal_error = TRUE,
                                  !.st.current_state = "not_pumping",
                                  !.st.pump_start_time = None],
                       "FATAL ERROR: STOPPING", now)
              ELSE cx
        c2 == insert_pump_event(c1, PumpEvent("Fatal Error", now, None, None, None))
    IN  IF ~c1.st.fatal_sent
        THEN Unless(c2, [c2 EXCEPT !.st.fatal_sent = TRUE])
        ELSE c1

\* Mutant of _increment_error: the timer is stamped but never escalates.
_increment_error_NoEscalation(cx, message, now, threshold) ==
    LET c1 == IF cx.st.error_started_at = None
              THEN [cx EXCEPT !.st.error_started_at = now]
              ELSE cx
    IN  _record_error(c1, message, now)

\* Mutant of _increment_error: the threshold test is > instead of >=.
_increment_error_Strict(cx, message, now, threshold) ==
    LET c1 == IF cx.st.error_started_at = None
              THEN [cx EXCEPT !.st.error_started_at = now]
              ELSE cx
        c2 == _record_error(c1, message, now)
    IN  IF (now - c2.st.error_started_at) > threshold
        THEN _handle_fatal(c2, now)
        ELSE c2

_increment_error(cx, message, now, threshold) ==
    LET c1 == IF cx.st.error_started_at = None
              THEN [cx EXCEPT !.st.error_started_at = now]
              ELSE cx
        c2 == _record_error(c1, message, now)
        error_count == now - c2.st.error_started_at
        c3 == IF error_count > 0 /\ error_count /= c2.st.last_error_count_logged
              THEN [c2 EXCEPT !.st.last_error_count_logged = error_count]
              ELSE c2
    IN  IF (now - c3.st.error_started_at) >= threshold
        THEN _handle_fatal(c3, now)
        ELSE c3

_pump_stop(cx, now) ==
    LET started == cx.st.pump_start_time
        pump_run_time == IF started /= None THEN Max0(now - started) ELSE None
        c1 == IF started /= None THEN cx
              ELSE _record_error(cx, "WARNING: Missing valid start time for pump event", now)
        pump_interval == IF c1.st.last_stop_time /= None
                         THEN Max0(now - c1.st.last_stop_time) ELSE None
        c2 == insert_pump_event(c1, PumpEvent("Pump Stop", now, pump_run_time,
                                              pump_interval, c1.st.last_flow_rate))
    IN  Unless(c2, [c2 EXCEPT !.st.pump_end_time = now,
                              !.st.last_stop_time = now,
                              !.st.pump_start_time = None])

\* Mutant of _increment_adc_stale: the pump is not forced off.
_increment_adc_stale_NoStop(cx, message, now, stale_fatal) ==
    LET c1 == IF cx.st.adc_stale_started_at = None
              THEN [cx EXCEPT !.st.adc_stale_started_at = now]
              ELSE cx
        c2 == _record_error(c1, message, now)
    IN  IF (now - c2.st.adc_stale_started_at) >= stale_fatal
        THEN _handle_fatal(c2, now)
        ELSE c2

\* Mutant of _increment_adc_stale: every failure stamps the timer anew.
_increment_adc_stale_Restamp(cx, message, now, stale_fatal) ==
    LET c2 == _record_error([cx EXCEPT !.st.adc_stale_started_at = now], message, now)
        c3 == IF c2.st.current_state \in ActiveStates
              THEN _pump_stop([c2 EXCEPT !.st.current_state = "not_pumping"], now)
              ELSE c2
    IN  IF (now - c3.st.adc_stale_started_at) >= stale_fatal
        THEN _handle_fatal(c3, now)
        ELSE c3

_increment_adc_stale(cx, message, now, stale_fatal) ==
    LET c1 == IF cx.st.adc_stale_started_at = None
              THEN [cx EXCEPT !.st.adc_stale_started_at = now]
              ELSE cx
        c2 == _record_error(c1, message, now)
        prev_state == c2.st.current_state
        c3 == IF prev_state \in ActiveStates
              THEN _pump_stop([c2 EXCEPT !.st.current_state = "not_pumping"], now)
              ELSE c2
    IN  IF c3.st.adc_stale_started_at /= None
           /\ (now - c3.st.adc_stale_started_at) >= stale_fatal
        THEN Unless(c3, _handle_fatal(c3, now))
        ELSE c3

_reset_error_timer(cx) ==
    [cx EXCEPT !.st.error_started_at = None,
               !.st.last_error_count_logged = None,
               !.st.adc_stale_started_at = None]

\* Mutant of clear_fatal_error: fatal_sent is not reset.
clear_fatal_error_KeepsSent(cx, now) ==
    IF ~cx.st.fatal_error
    THEN cx
    ELSE _record_error(_reset_error_timer([cx EXCEPT !.st.fatal_error = FALSE]),
                       "Cleared fatal error state", now)

\* Mutant of clear_fatal_error: the clear runs whether or not the state is
\* fatal.
clear_fatal_error_Unguarded(cx, now) ==
    _record_error(
        _reset_error_timer([cx EXCEPT !.st.fatal_error = FALSE,
                                      !.st.fatal_sent = FALSE]),
        "Cleared fatal error state", now)

clear_fatal_error(cx, now) ==
    IF ~cx.st.fatal_error
    THEN cx
    ELSE _record_error(
             _reset_error_timer([cx EXCEPT !.st.fatal_error = FALSE,
                                           !.st.fatal_sent = FALSE]),
             "Cleared fatal error state", now)


\* 12.18 gallons * 3600 s/h, the numerator of the flow rate (gallons/hour).
FlowNumerator == 43848

_tank_full_event_handling(cx, now) ==
    LET c1 == IF cx.st.pump_start_time = None
              THEN [cx EXCEPT !.st.pump_start_time = now]
              ELSE cx
        had_end == c1.st.pump_end_time /= None
        fill_time == IF had_end THEN Max0(now - c1.st.pump_end_time) ELSE None
        flow_rate == IF had_end /\ fill_time > 0
                     THEN FlowNumerator \div fill_time ELSE None
        c2 == IF had_end
              THEN [c1 EXCEPT !.st.last_fill_time = fill_time,
                              !.st.last_flow_rate = flow_rate,
                              !.st.pump_end_time = None]
              ELSE _record_error(c1,
                       "WARNING:tank full & started pumping but no pump_end_time", now)
    IN  insert_pump_event(c2, PumpEvent("Auto Pump Start", now, None, fill_time, flow_rate))

\* Mutant of _manual_start: the fill bookkeeping is kept.
_manual_start_KeepsFill(cx, now) ==
    LET c1 == IF cx.st.pump_start_time = None
              THEN [cx EXCEPT !.st.pump_start_time = now]
              ELSE cx
    IN  insert_pump_event(c1, PumpEvent("Manual Pump Start", now, None, None, None))

_manual_start(cx, now) ==
    LET c1 == IF cx.st.pump_start_time = None
              THEN [cx EXCEPT !.st.pump_start_time = now]
              ELSE cx
        c2 == [c1 EXCEPT !.st.pump_end_time = None,
                         !.st.last_fill_time = None,
                         !.st.last_flow_rate = None]
    IN  insert_pump_event(c2, PumpEvent("Manual Pump Start", now, None, None, None))

WhileText(s) ==
    IF s = "pumping" THEN "auto pumping"
    ELSE IF s = "manual_pumping" THEN "manual pumping"
    ELSE "not pumping"

\* Mutant of ApplyReturnsEarly: the fatal overlay is not tested.
ApplyReturnsEarly_NoFatalCheck(st, now, threshold) ==
    st.error_started_at /= None /\ (now - st.error_started_at) >= threshold

\* _apply_signals, lines 805-810: the fatal overlay and the expired error timer.
\* TRUE when the handler returns before the truth table.
ApplyReturnsEarly(st, now, threshold) ==
    \/ st.fatal_error
    \/ st.error_started_at /= None /\ (now - st.error_started_at) >= threshold

\* One operator per row of the truth table of _apply_signals.
Row000(cx) == _reset_error_timer(cx)

Row111(cx, s, now, threshold) ==
    LET c1 == _increment_error(cx,
                  "ERROR: received simultaneous tank empty, manual start, and tank full signals while "
                  \o WhileText(s), now, threshold)
    IN  IF s = "not_pumping"
        THEN Unless(c1, [c1 EXCEPT !.st.current_state = "pumping"])
        ELSE c1

Row101(cx, s, now, threshold) ==
    LET c1 == IF s = "not_pumping" THEN [cx EXCEPT !.st.current_state = "pumping"] ELSE cx
    IN  _increment_error(c1,
            "ERROR: received simultaneous tank empty and tank full signals while "
            \o WhileText(s), now, threshold)

\* Mutant of Row011: the error timer is left running.
Row011_KeepsTimer(cx, s, now) ==
    LET c1 == _record_error(cx,
                  "WARNING: received simultaneous tank empty and manual pump start signals while "
                  \o WhileText(s), now)
        c2 == [c1 EXCEPT !.st.current_state = "not_pumping"]
    IN  IF s \in ActiveStates THEN _pump_stop(c2, now) ELSE c2

Row011(cx, s, now) ==
    LET c1 == _record_error(_reset_error_timer(cx),
                  "WARNING: received simultaneous tank empty and manual pump start signals while "
                  \o WhileText(s), now)
        c2 == [c1 EXCEPT !.st.current_state = "not_pumping"]
    IN  IF s \in ActiveStates THEN _pump_stop(c2, now) ELSE c2

\* Mutant of Row110: ManualPumping is left as it is.
Row110_KeepsManual(cx, s, now, threshold) ==
    IF s = "not_pumping"
    THEN LET c1 == _increment_error(cx,
                       "WARNING: received simultaneous tank full and manual start signals while not pumping",
                       now, threshold)
         IN  _tank_full_event_handling([c1 EXCEPT !.st.current_state = "pumping"], now)
    ELSE _increment_error(cx,
             "WARNING: received simultaneous tank full and manual start signals while auto pumping",
             now, threshold)

Row110(cx, s, now, threshold) ==
    IF s = "pumping"
    THEN _increment_error(cx,
             "WARNING: received simultaneous tank full and manual start signals while auto pumping",
             now, threshold)
    ELSE LET c1 == _increment_error(cx,
                       IF s = "manual_pumping"
                       THEN "WARNING: received simultaneous tank full and manual start signals while manually pumping"
                       ELSE "WARNING: received simultaneous tank full and manual start signals while not pumping",
                       now, threshold)
         IN  Unless(c1, _tank_full_event_handling(
                            [c1 EXCEPT !.st.current_state = "pumping"], now))

Row100(cx, s, now, threshold) ==
    IF s = "pumping"
    THEN _increment_error(cx, "WARNING: received tank full signal while auto pumping",
                          now, threshold)
    ELSE IF s = "manual_pumping"
    THEN LET c1 == _increment_error(cx,
                       "WARNING: received tank full signal while manual pumping",
                       now, threshold)
         IN  Unless(c1, _tank_full_event_handling(
                            [c1 EXCEPT !.st.current_state = "pumping"], now))
    ELSE _tank_full_event_handling(
             [_reset_error_timer(cx) EXCEPT !.st.current_state = "pumping"], now)

\* Mutant of Row010: a manual start is recorded in ManualPumping too.
Row010_AlwaysStarts(cx, s, now) ==
    IF s = "pumping"
    THEN _record_error(_reset_error_timer(cx),
             "WARNING: received manual pump signal while auto pumping", now)
    ELSE _manual_start([_reset_error_timer(cx) EXCEPT !.st.current_state = "manual_pumping"],
                       now)

Row010(cx, s, now) ==
    IF s = "pumping"
    THEN _record_error(_reset_error_timer(cx),
             "WARNING: received manual pump signal while auto pumping", now)
    ELSE IF s = "manual_pumping"
    THEN _reset_error_timer(cx)
    ELSE _manual_start([_reset_error_timer(cx) EXCEPT !.st.current_state = "manual_pumping"],
                       now)

Row001(cx, s, now) ==
    LET c1 == _reset_error_timer(cx)
        c2 == IF s \in ActiveStates
              THEN _pump_stop([c1 EXCEPT !.st.current_state = "not_pumping"], now)
              ELSE [c1 EXCEPT !.st.pump_end_time = now]
    IN  IF c2.st.pump_end_time = None
        THEN Unless(c2, [c2 EXCEPT !.st.pump_end_time = now])
        ELSE c2

\* _apply_signals, lines 812-916: the truth table over (tank_full, manual_start,
\* tank_empty), evaluated on the state the poll found.
ApplyTable(cx, sig, now, threshold) ==
    LET p1 == sig.tank_full
        p2 == sig.manual_start
        p3 == sig.tank_empty
        s  == cx.st.current_state
    IN  IF ~p1 /\ ~p2 /\ ~p3 THEN Row000(cx)
        ELSE IF p1 /\ p2 /\ p3 THEN Row111(cx, s, now, threshold)
        ELSE IF p1 /\ ~p2 /\ p3 THEN Row101(cx, s, now, threshold)
        ELSE IF ~p1 /\ p2 /\ p3 THEN Row011(cx, s, now)
        ELSE IF p1 /\ p2 /\ ~p3 THEN Row110(cx, s, now, threshold)
        ELSE IF p1 /\ ~p2 /\ ~p3 THEN Row100(cx, s, now, threshold)
        ELSE IF ~p1 /\ p2 /\ ~p3 THEN Row010(cx, s, now)
        ELSE Row001(cx, s, now)

\* Mutant of HoldStep: the hold is not latched, so the action is invoked on
\* every poll once the hold has lasted hold_seconds.
HoldStep_NoLatch(is_high, start, fired, now, hold_seconds) ==
    IF is_high
    THEN LET st1 == IF start = None THEN now ELSE start
             fire == (now - st1) >= hold_seconds
         IN  [start |-> st1, fired |-> FALSE, invoke |-> fire]
    ELSE [start |-> None, fired |-> FALSE, invoke |-> FALSE]

\* Mutant of HoldStep: a latched hold that is still high invokes its action
\* again.
HoldStep_KeepsFiring(is_high, start, fired, now, hold_seconds) ==
    IF is_high
    THEN LET st1 == IF start = None THEN now ELSE start
             fire == (now - st1) >= hold_seconds
         IN  [start |-> st1, fired |-> fired \/ fire, invoke |-> fire]
    ELSE [start |-> None, fired |-> FALSE, invoke |-> FALSE]

\* Mutant of HoldStep: a low read restarts the hold clock but does not re-arm
\* the hold.
HoldStep_NoRearm(is_high, start, fired, now, hold_seconds) ==
    IF is_high
    THEN LET st1 == IF start = None THEN now ELSE start
             fire == ~fired /\ (now - st1) >= hold_seconds
         IN  [start |-> st1, fired |-> fired \/ fire, invoke |-> fire]
    ELSE [start |-> None, fired |-> fired, invoke |-> FALSE]

\* _handle_control_holds for one channel: the new (start, fired) and whether
\* the bound action is invoked.
HoldStep(is_high, start, fired, now, hold_seconds) ==
    IF is_high
    THEN LET st1 == IF start = None THEN now ELSE start
             fire == ~fired /\ (now - st1) >= hold_seconds
         IN  [start |-> st1, fired |-> fired \/ fire, invoke |-> fire]
    ELSE [start |-> None, fired |-> FALSE, invoke |-> FALSE]


\* ------------------------------------------------------------- the inputs
\* ------------------------------------------------------- the cached reader
\* A payload field that is absent or is not a map.
NoMap == [k \in {"absent"} |-> FALSE]
NoVolts == {"absent"}

\* A "monotonic" field that float() rejects.
NotANumber == -2

SampledNames == {"tank_full", "manual_start", "tank_empty"}

\* adc_cache.cache_age_seconds: infinite without a usable "monotonic" field,
\* else the time since it, never negative.
cache_age_seconds(payload, now) ==
    IF payload.monotonic = None \/ payload.monotonic = NotANumber
    THEN [inf |-> TRUE, seconds |-> 0]
    ELSE [inf |-> FALSE, seconds |-> Max0(now - payload.monotonic)]

\* Mutant of AgeExceeds: an age equal to the limit is stale too.
AgeExceeds_AtLimit(age, max_age) == age.inf \/ age.seconds >= max_age

\* age > max_age_seconds, for an age that may be infinite.
AgeExceeds(age, max_age) == age.inf \/ age.seconds > max_age

\* signals.setdefault(key, False) for the three control channels.
WithControlDefaults(sig) ==
    [k \in DOMAIN sig \cup HoldChannels |-> IF k \in DOMAIN sig THEN sig[k] ELSE FALSE]

\* CachedSignalReader.read_signals: ADCStaleError ("stale") or the signals.
Stale == [err |-> "stale", signals |-> NoMap]

read_signals(payload, now, max_age) ==
    IF ~payload.readable THEN Stale
    ELSE IF AgeExceeds(cache_age_seconds(payload, now), max_age) THEN Stale
    ELSE IF payload.signals = NoMap THEN Stale
    ELSE IF payload.volts = NoVolts THEN Stale
    ELSE IF \E key \in SampledNames : key \notin payload.volts THEN Stale
    ELSE [err |-> "ok", signals |-> WithControlDefaults(payload.signals)]

\* The snapshots read_signals can return; svc is the set of values the
\* service_on / service_off channels take and clr the set of values the
\* clear_fatal channel takes.
SignalSnapshots(svc, clr) ==
    [tank_full : BOOLEAN, manual_start : BOOLEAN, tank_empty : BOOLEAN,
     service_on : svc, service_off : svc, clear_fatal : clr]

AllLow == [n \in SignalNames |-> FALSE]

\* PumpController.get_state: the copy taken under the lock (the fields the
\* relay worker and the state cache read).
get_state(st) ==
    [current_state |-> st.current_state, fatal_error |-> st.fatal_error,
     adc_stale_started_at |-> st.adc_stale_started_at]

\* A get_state call made while a poll is between two of its locked sections
\* is remembered until the poll ends.
Observe(snap) ==
    IF poll_obs.on /\ ctl_pc \in {"holds", "apply"}
    THEN [poll_obs EXCEPT !.mid = snap]
    ELSE poll_obs

\* The state mutex is held by the controller between the two halves of
\* _apply_signals.
LockFree == ctl_pc /= "table"

\* ------------------------------------------------------------------- Init
\* started tells whether start() has already run: the loops are at the top
\* of their first iteration, or no thread exists yet.
\* adc_service.main, lines 83-86: the windows are empty when the process starts.
NoBuffers == [k \in SampledNames |-> <<>>]

\* No direct read of the converter has been made.
NoDirectRead == [done |-> FALSE, samples |-> [n \in SignalNames |-> <<>>], signals |-> AllLow]

\* PumpDatabase._connect, lines 158-174: the table starts empty (a new database).
NoRecord == [event_type |-> "", source_timestamp |-> None, pump_run_time_s |-> None,
             pump_interval_s |-> None, gallons_per_hour |-> None]
NoRows == [rows |-> <<>>, last |-> NoRecord]

InitCore(thresholds, observe, started, faults) ==
    /\ clock = 0
    /\ error_threshold \in thresholds
    /\ adc_stale_fatal_seconds = StaleFatalSeconds
    /\ control_hold_seconds = HoldSeconds
    /\ observe_log = observe
    /\ sink_faults = faults
    /\ state = PumpState
    /\ error_log = ErrorLog
    /\ control_hold_start = [c \in HoldChannels |-> None]
    /\ control_hold_fired = [c \in HoldChannels |-> FALSE]
    /\ signals = AllLow
    /\ ctl_pc = IF started THEN "idle" ELSE "done"
    /\ hold_actions = {}
    /\ events = <<>>
    /\ episode_fatal_events = 0
    /\ log_sink = <<>>
    /\ relay_pc = IF started THEN "read" ELSE "done"
    /\ relay_snap = get_state(PumpState)
    /\ relay_cmd = FALSE
    /\ gpio = [setup |-> TRUE, level |-> FALSE]
    /\ svc_stop_event = FALSE
    /\ ctl_stop_event = FALSE
    /\ relay_stop_event = FALSE
    /\ stop_pc = IF started THEN "running" ELSE "constructed"
    /\ wd_pc = IF started THEN "wait" ELSE "done"
    /\ wd_log = NoMessage
    /\ sd_pending = [mode \in Modes |-> 0]
    /\ sd_running = "none"
    /\ bool_buffers = NoBuffers
    /\ direct_read = NoDirectRead
    /\ pump_db = NoRows
    /\ sink_entries = <<>>

\* The history of snapshots is kept only by the specification that needs it.
PollObs(on) == [on |-> on, pre |-> get_state(PumpState), mid |-> get_state(PumpState)]

\* No cache file yet, and no read of it.
NoCache == [readable |-> FALSE, monotonic |-> None, signals |-> NoMap, volts |-> NoVolts]
NoRead == [err |-> "unread", signals |-> NoMap, at |-> None]

CacheOff == cache = NoCache /\ pins = [c \in HoldChannels |-> FALSE] /\ reader_out = NoRead

InitCfg(thresholds, observe, started, faults) ==
    InitCore(thresholds, observe, started, faults) /\ poll_obs = PollObs(FALSE) /\ CacheOff

Init == InitCfg(0 .. MaxThreshold, FALSE, TRUE, {0})

\* A handler's effect on the state, the event sink and the log sink.  first
\* is TRUE for the handler that begins a poll.
CountEvents(evs, type) == Cardinality({i \in DOMAIN evs : evs[i].event_type = type})

Commit(cx, first) ==
    /\ state' = cx.st
    /\ events' = IF first THEN cx.ev ELSE events \o cx.ev
    /\ LET base == IF state.fatal_error /\ ~cx.st.fatal_error
                   THEN 0 ELSE episode_fatal_events
           n == base + CountEvents(cx.ev, "Fatal Error")
       IN  episode_fatal_events' = IF n > 1 THEN 2 ELSE n
    /\ error_log' = IF observe_log THEN cx.el ELSE error_log
    /\ log_sink' = IF ~observe_log THEN log_sink
                   ELSE IF first THEN cx.log ELSE log_sink \o cx.log

\* _run, lines 798-800: an exception that leaves the try block is caught by
\* the generic clause, which records it; the loop goes on.
SignalLoopError(cx, now) ==
    IF cx.raised
    THEN _record_error([cx EXCEPT !.raised = FALSE], "Signal loop error", now)
    ELSE cx

\* ---------------------------------------------------------------- actions
\* The clock advances by one second.
Tick ==
    /\ clock < MaxTime
    /\ clock' = clock + 1
    /\ UNCHANGED <<cfg_vars, pump_db, direct_read, bool_buffers, sink_entries, poll_obs, cache_vars, svc_vars, sd_vars, state, error_log, hold_vars, signals, ctl_pc,
                   hold_actions, events, episode_fatal_events, log_sink, relay_vars>>

\* _run, lines 752 and 754 and 795-797: the stop event is clear; read_signals raises ADCStaleError and the poll
\* ends in _handle_adc_stale.
\* An exception of the event sink inside _handle_adc_stale is raised in the
\* except clause itself, so no clause of the try statement catches it: it
\* leaves _run and the thread ends, keeping what was assigned before it.
CtlReadStale ==
    /\ ctl_pc = "idle"
    /\ ~ctl_stop_event
    /\ \E f \in sink_faults :
          LET cx == _increment_adc_stale(CtxF(state, error_log, f), "ADC cache stale",
                                         clock, adc_stale_fatal_seconds)
          IN  /\ Commit(cx, TRUE)
              /\ ctl_pc' = IF cx.raised THEN "done" ELSE ctl_pc
    /\ hold_actions' = {}
    /\ UNCHANGED <<clock, cfg_vars, pump_db, direct_read, bool_buffers, sink_entries, poll_obs, cache_vars, svc_vars, sd_vars, hold_vars, signals, relay_vars>>

\* Mutant of CtlReadOk: a successful read leaves the staleness timer running.
CtlReadOk_NoReset(snapshots) ==
    /\ ctl_pc = "idle"
    /\ ~ctl_stop_event
    /\ \E snapshot \in snapshots : signals' = snapshot
    /\ Commit(Ctx(state, error_log), TRUE)
    /\ ctl_pc' = "holds"
    /\ hold_actions' = {}
    /\ poll_obs' = IF poll_obs.on
                   THEN [poll_obs EXCEPT !.pre = get_state(state), !.mid = get_state(state)]
                   ELSE poll_obs
    /\ UNCHANGED <<clock, cfg_vars, pump_db, direct_read, bool_buffers, sink_entries, cache_vars, svc_vars, sd_vars, hold_vars, relay_vars>>

\* _run, lines 752-757: the stop event is clear; read_signals succeeds; the staleness timer is reset
\* under the lock.
CtlReadOk(snapshots) ==
    /\ ctl_pc = "idle"
    /\ ~ctl_stop_event
    /\ \E snapshot \in snapshots : signals' = snapshot
    /\ Commit(Ctx([state EXCEPT !.adc_stale_started_at = None], error_log), TRUE)
    /\ ctl_pc' = "holds"
    /\ hold_actions' = {}
    /\ poll_obs' = IF poll_obs.on
                   THEN [poll_obs EXCEPT !.pre = get_state(state), !.mid = get_state(state)]
                   ELSE poll_obs
    /\ UNCHANGED <<clock, cfg_vars, pump_db, direct_read, bool_buffers, sink_entries, cache_vars, svc_vars, sd_vars, hold_vars, relay_vars>>

\* _run, line 758: _handle_control_holds.  A service_on / service_off hold
\* that fires spawns a _run_systemd_setup thread (_spawn_systemd_setup).
CtlHolds ==
    /\ ctl_pc = "holds"
    /\ LET h == [c \in HoldChannels |->
                    HoldStep(signals[c], control_hold_start[c],
                             control_hold_fired[c], clock, control_hold_seconds)]
       IN  /\ control_hold_start' = [c \in HoldChannels |-> h[c].start]
           /\ control_hold_fired' = [c \in HoldChannels |-> h[c].fired]
           /\ hold_actions' = {c \in HoldChannels : h[c].invoke}
           /\ sd_pending' = [mode \in Modes |->
                                sd_pending[mode] + (IF h[HoldChannelOf(mode)].invoke THEN 1 ELSE 0)]
           /\ Commit(IF h["clear_fatal"].invoke
                     THEN clear_fatal_error(Ctx(state, error_log), clock)
                     ELSE Ctx(state, error_log), FALSE)
    /\ ctl_pc' = "apply"
    /\ UNCHANGED <<clock, cfg_vars, pump_db, direct_read, bool_buffers, sink_entries, poll_obs, cache_vars, svc_vars, sd_running, signals, relay_vars>>

\* _apply_signals, lines 804-810: take the lock; return early through
\* _handle_fatal when fatal or when the error timer has expired.
CtlApplyEnter ==
    /\ ctl_pc = "apply"
    /\ IF ApplyReturnsEarly(state, clock, error_threshold)
       THEN /\ \E f \in sink_faults :
                  Commit(SignalLoopError(
                             _handle_fatal(CtxF(state, error_log, f), clock), clock), FALSE)
            /\ ctl_pc' = "idle"
            /\ signals' = AllLow
       ELSE /\ ctl_pc' = "table"
            /\ UNCHANGED <<state, error_log, events, episode_fatal_events, log_sink, signals>>
    /\ UNCHANGED <<clock, cfg_vars, pump_db, direct_read, bool_buffers, sink_entries, poll_obs, cache_vars, svc_vars, sd_vars, hold_vars, hold_actions, relay_vars>>

\* _apply_signals, lines 812-916: the truth table; the lock is released.
CtlApplyTable ==
    /\ ctl_pc = "table"
    /\ \E f \in sink_faults :
          Commit(SignalLoopError(
                     ApplyTable(CtxF(state, error_log, f), signals, clock, error_threshold),
                     clock), FALSE)
    /\ ctl_pc' = "idle"
    /\ signals' = AllLow
    /\ UNCHANGED <<clock, cfg_vars, pump_db, direct_read, bool_buffers, sink_entries, poll_obs, cache_vars, svc_vars, sd_vars, hold_vars, hold_actions, relay_vars>>

\* Mutant of PumpOn: ManualPumping does not turn the relay on.
PumpOn_AutoOnly(snap) == snap.current_state = "pumping" /\ ~snap.fatal_error

\* PumpRelayWorker._run, line 977: pump_on.
PumpOn(snap) == snap.current_state \in ActiveStates /\ ~snap.fatal_error

\* PumpRelay.set_state: the write reaches the pin only while the channel is
\* set up; otherwise GPIO.output raises and the exception is logged.
set_state(g, on) == IF g.setup THEN [g EXCEPT !.level = on] ELSE g

\* PumpRelayWorker._run, lines 974-978, as one step: the stop event is clear;
\* snapshot and write.
RelayTick ==
    /\ relay_pc = "read"
    /\ ~relay_stop_event
    /\ LockFree
    /\ relay_cmd' = PumpOn(get_state(state))
    /\ gpio' = set_state(gpio, PumpOn(get_state(state)))
    /\ poll_obs' = Observe(get_state(state))
    /\ UNCHANGED <<clock, cfg_vars, pump_db, direct_read, bool_buffers, sink_entries, cache_vars, svc_vars, sd_vars, state, error_log, hold_vars, signals, ctl_pc,
                   hold_actions, events, episode_fatal_events, log_sink, relay_pc, relay_snap>>

\* PumpRelayWorker._run, lines 974-976: the stop event is clear; the
\* snapshot, as a step of its own.
RelayRead ==
    /\ relay_pc = "read"
    /\ ~relay_stop_event
    /\ LockFree
    /\ relay_snap' = get_state(state)
    /\ relay_pc' = "write"
    /\ poll_obs' = Observe(get_state(state))
    /\ UNCHANGED <<clock, cfg_vars, pump_db, direct_read, bool_buffers, sink_entries, cache_vars, svc_vars, sd_vars, state, error_log, hold_vars, signals, ctl_pc,
                   hold_actions, events, episode_fatal_events, log_sink, relay_cmd, gpio>>

\* PumpRelayWorker._run, lines 977-978: the write that follows the snapshot.
RelayWrite ==
    /\ relay_pc = "write"
    /\ relay_cmd' = PumpOn(relay_snap)
    /\ gpio' = set_state(gpio, PumpOn(relay_snap))
    /\ relay_pc' = "read"
    /\ UNCHANGED <<clock, cfg_vars, pump_db, direct_read, bool_buffers, sink_entries, poll_obs, cache_vars, svc_vars, sd_vars, state, error_log, hold_vars, signals, ctl_pc,
                   hold_actions, events, episode_fatal_events, log_sink, relay_snap>>

Next ==
    \/ Tick
    \/ CtlReadStale
    \/ CtlReadOk(SignalSnapshots({FALSE}, BOOLEAN))
    \/ CtlHolds
    \/ CtlApplyEnter
    \/ CtlApplyTable
    \/ RelayTick

\* The controller loop and the relay loop, a relay tick being one step.
Spec == Init /\ [][Next]_vars

NextRelay ==
    \/ Tick
    \/ CtlReadStale
    \/ CtlReadOk(SignalSnapshots({FALSE}, {FALSE}))
    \/ CtlHolds
    \/ CtlApplyEnter
    \/ CtlApplyTable
    \/ RelayRead
    \/ RelayWrite

\* The controller loop and the relay loop, the relay's snapshot and its write
\* being separate steps; the clear_fatal channel stays low.
SpecRelay == Init /\ [][NextRelay]_vars


\* ------------------------------------------------- the service life cycle
\* ControllerService.stop / PumpApp.shutdown run on the main thread; stop_pc
\* is "constructed" before start(), "running" between start() and stop(),
\* then the position inside stop(), then "returned".  A thread whose pc is
\* "done" is not alive.

\* PumpRelay.cleanup as one step: GPIO.output(LOW) then GPIO.cleanup(pin),
\* which releases the channel.  On a released channel GPIO.output raises and
\* the handler swallows the exception.
cleanup(g) == IF g.setup THEN [setup |-> FALSE, level |-> FALSE] ELSE g

\* ControllerService._append_error, lines 168-171: the message the watchdog
\* appends to the error log, prefixed when the state is fatal.
_append_error(snap, message) == [fatal |-> snap.fatal_error, text |-> message]

\* ControllerService.start: controller.start, relay_worker.start,
\* _start_watchdog.
SvcStart ==
    /\ stop_pc = "constructed"
    /\ stop_pc' = "running"
    /\ ctl_stop_event' = FALSE
    /\ ctl_pc' = "idle"
    /\ relay_stop_event' = FALSE
    /\ relay_pc' = "read"
    /\ wd_pc' = "wait"
    /\ UNCHANGED <<clock, cfg_vars, pump_db, direct_read, bool_buffers, sink_entries, poll_obs, cache_vars, sd_vars, wd_log, state, error_log, hold_vars, signals, hold_actions,
                   events, episode_fatal_events, log_sink, relay_snap, relay_cmd, gpio,
                   svc_stop_event>>

\* PumpController._run, line 752: the stop event is set at the top of an
\* iteration and the controller thread ends.
CtlExit ==
    /\ ctl_pc = "idle"
    /\ ctl_stop_event
    /\ ctl_pc' = "done"
    /\ UNCHANGED <<clock, cfg_vars, pump_db, direct_read, bool_buffers, sink_entries, poll_obs, cache_vars, svc_vars, sd_vars, state, error_log, hold_vars, signals,
                   hold_actions, events, episode_fatal_events, log_sink, relay_vars>>

\* PumpRelayWorker._run, line 974: the stop event is set at the top of an
\* iteration and the relay thread ends.
RelayExit ==
    /\ relay_pc = "read"
    /\ relay_stop_event
    /\ relay_pc' = "done"
    /\ UNCHANGED <<clock, cfg_vars, pump_db, direct_read, bool_buffers, sink_entries, poll_obs, cache_vars, svc_vars, sd_vars, state, error_log, hold_vars, signals, ctl_pc,
                   hold_actions, events, episode_fatal_events, log_sink,
                   relay_snap, relay_cmd, gpio>>

\* The variables no step of stop() or of the watchdog touches.
ctl_data == <<clock, cfg_vars, pump_db, direct_read, bool_buffers, sink_entries, poll_obs, cache_vars, sd_vars, state, error_log, hold_vars, signals, hold_actions,
              events, episode_fatal_events, log_sink, relay_snap, relay_cmd>>

\* ControllerService.stop, line 156: stop_event.set().
StopSetEvent ==
    /\ stop_pc = "running"
    /\ svc_stop_event' = TRUE
    /\ stop_pc' = "ctl_stop"
    /\ UNCHANGED <<ctl_data, wd_log, ctl_pc, relay_pc, gpio, ctl_stop_event, relay_stop_event, wd_pc>>

\* PumpController.stop, line 528: stop_event.set().
StopController ==
    /\ stop_pc = "ctl_stop"
    /\ ctl_stop_event' = TRUE
    /\ stop_pc' = "ctl_join"
    /\ UNCHANGED <<ctl_data, wd_log, ctl_pc, relay_pc, gpio, svc_stop_event, relay_stop_event, wd_pc>>

\* PumpController.stop, lines 529-530: thread.join(timeout=2) returns, the
\* thread having ended or the timeout having run out while the thread is
\* still inside an iteration.
StopJoinController ==
    /\ stop_pc = "ctl_join"
    /\ stop_pc' = "relay_stop"
    /\ UNCHANGED <<ctl_data, wd_log, ctl_pc, relay_pc, gpio, svc_stop_event, ctl_stop_event,
                   relay_stop_event, wd_pc>>

\* PumpRelayWorker.stop, line 968: stop_event.set().
StopRelay ==
    /\ stop_pc = "relay_stop"
    /\ relay_stop_event' = TRUE
    /\ stop_pc' = "relay_join"
    /\ UNCHANGED <<ctl_data, wd_log, ctl_pc, relay_pc, gpio, svc_stop_event, ctl_stop_event, wd_pc>>

\* PumpRelayWorker.stop, lines 969-970: thread.join(timeout=2) returns, the
\* thread having ended or the timeout having run out.
StopJoinRelay ==
    /\ stop_pc = "relay_join"
    /\ stop_pc' = "cleanup_low"
    /\ UNCHANGED <<ctl_data, wd_log, ctl_pc, relay_pc, gpio, svc_stop_event, ctl_stop_event,
                   relay_stop_event, wd_pc>>

\* PumpRelay.cleanup, line 946: GPIO.output(LOW); on a released channel it
\* raises and line 947 is skipped.
StopCleanupLow ==
    /\ stop_pc = "cleanup_low"
    /\ gpio' = set_state(gpio, FALSE)
    /\ stop_pc' = IF gpio.setup THEN "cleanup_release" ELSE "wd_join"
    /\ UNCHANGED <<ctl_data, wd_log, ctl_pc, relay_pc, svc_stop_event, ctl_stop_event,
                   relay_stop_event, wd_pc>>

\* PumpRelay.cleanup, line 947: GPIO.cleanup(pin) releases the channel.
StopCleanupRelease ==
    /\ stop_pc = "cleanup_release"
    /\ gpio' = [setup |-> FALSE, level |-> FALSE]
    /\ stop_pc' = "wd_join"
    /\ UNCHANGED <<ctl_data, wd_log, ctl_pc, relay_pc, svc_stop_event, ctl_stop_event,
                   relay_stop_event, wd_pc>>

\* ControllerService.stop, lines 159-160: watchdog_thread.join(timeout=2)
\* returns, the watchdog having ended or the timeout having run out; stop()
\* returns.
StopJoinWatchdog ==
    /\ stop_pc = "wd_join"
    /\ stop_pc' = "returned"
    /\ UNCHANGED <<ctl_data, wd_log, ctl_pc, relay_pc, gpio, svc_stop_event, ctl_stop_event,
                   relay_stop_event, wd_pc>>

\* _watchdog_loop, line 174: stop_event.wait(5) times out with the event
\* clear and an iteration begins.
WdWake ==
    /\ wd_pc = "wait"
    /\ ~svc_stop_event
    /\ wd_pc' = "ctl"
    /\ UNCHANGED <<ctl_data, wd_log, ctl_pc, relay_pc, gpio, svc_stop_event, ctl_stop_event,
                   relay_stop_event, stop_pc>>

\* _watchdog_loop, line 174: the event is set and the watchdog ends.
WdExit ==
    /\ wd_pc = "wait"
    /\ svc_stop_event
    /\ wd_pc' = "done"
    /\ UNCHANGED <<ctl_data, wd_log, ctl_pc, relay_pc, gpio, svc_stop_event, ctl_stop_event,
                   relay_stop_event, stop_pc>>

\* Mutant of WdCheckController: the watchdog restarts the controller without
\* looking at its thread.
WdCheckController_Always ==
    /\ wd_pc = "ctl"
    /\ wd_log' = _append_error(get_state(state), "Restarting controller loop")
    /\ ctl_stop_event' = TRUE
    /\ wd_pc' = "ctl_start"
    /\ UNCHANGED <<ctl_data, ctl_pc, relay_pc, gpio, svc_stop_event, relay_stop_event, stop_pc>>

\* _watchdog_loop, lines 175-177: the controller thread is not alive, so the
\* restart is logged and controller.stop() runs (the join returns at once); otherwise on to the relay.
WdCheckController ==
    /\ wd_pc = "ctl"
    /\ IF ctl_pc = "done"
       THEN /\ wd_log' = _append_error(get_state(state), "Restarting controller loop")
            /\ ctl_stop_event' = TRUE
            /\ wd_pc' = "ctl_start"
       ELSE /\ UNCHANGED <<wd_log, ctl_stop_event>>
            /\ wd_pc' = "relay"
    /\ UNCHANGED <<ctl_data, ctl_pc, relay_pc, gpio, svc_stop_event, relay_stop_event, stop_pc>>

\* Mutant of WdStartController: the restart builds a new PumpState and new
\* hold timers.
WdStartController_NewState ==
    /\ wd_pc = "ctl_start"
    /\ ctl_stop_event' = FALSE
    /\ ctl_pc' = "idle"
    /\ wd_pc' = "relay"
    /\ state' = PumpState
    /\ control_hold_start' = [c \in HoldChannels |-> None]
    /\ control_hold_fired' = [c \in HoldChannels |-> FALSE]
    /\ UNCHANGED <<clock, cfg_vars, pump_db, direct_read, bool_buffers, sink_entries, poll_obs,
                   cache_vars, sd_vars, error_log, signals, hold_actions, events,
                   episode_fatal_events, log_sink, relay_snap, relay_cmd, wd_log, relay_pc,
                   gpio, svc_stop_event, relay_stop_event, stop_pc>>

\* _watchdog_loop, line 178: controller.start() clears the stop event and
\* starts a new controller thread.
WdStartController ==
    /\ wd_pc = "ctl_start"
    /\ ctl_stop_event' = FALSE
    /\ ctl_pc' = "idle"
    /\ wd_pc' = "relay"
    /\ UNCHANGED <<ctl_data, wd_log, relay_pc, gpio, svc_stop_event, relay_stop_event, stop_pc>>

\* _watchdog_loop, lines 179-181: the relay thread is not alive, so the
\* restart is logged and relay_worker.stop() runs: the event is set, the join returns at once and
\* the relay is cleaned up; otherwise the iteration ends.
WdCheckRelay ==
    /\ wd_pc = "relay"
    /\ IF relay_pc = "done"
       THEN /\ LockFree
            /\ wd_log' = _append_error(get_state(state), "Restarting relay loop")
            /\ relay_stop_event' = TRUE
            /\ gpio' = cleanup(gpio)
            /\ wd_pc' = "relay_start"
       ELSE /\ UNCHANGED <<wd_log, relay_stop_event, gpio>>
            /\ wd_pc' = "wait"
    /\ UNCHANGED <<ctl_data, ctl_pc, relay_pc, svc_stop_event, ctl_stop_event, stop_pc>>

\* Mutant of WdStartRelay: relay_worker.start() returns without starting a
\* thread.
WdStartRelay_NoThread ==
    /\ wd_pc = "relay_start"
    /\ relay_stop_event' = FALSE
    /\ wd_pc' = "wait"
    /\ UNCHANGED <<ctl_data, wd_log, ctl_pc, relay_pc, gpio, svc_stop_event, ctl_stop_event,
                   stop_pc>>

\* _watchdog_loop, line 182: relay_worker.start() clears the stop event and
\* starts a new relay thread.
WdStartRelay ==
    /\ wd_pc = "relay_start"
    /\ relay_stop_event' = FALSE
    /\ relay_pc' = "read"
    /\ wd_pc' = "wait"
    /\ UNCHANGED <<ctl_data, wd_log, ctl_pc, gpio, svc_stop_event, ctl_stop_event, stop_pc>>

MaxSvcThreshold == 1

InitSvc == InitCfg({0, MaxSvcThreshold}, FALSE, FALSE, {0})

NextSvc ==
    \/ SvcStart
    \/ CtlReadStale
    \/ CtlReadOk(SignalSnapshots({FALSE}, {FALSE}))
    \/ CtlHolds
    \/ CtlApplyEnter
    \/ CtlApplyTable
    \/ CtlExit
    \/ RelayRead
    \/ RelayWrite
    \/ RelayExit
    \/ StopSetEvent
    \/ StopController
    \/ StopJoinController
    \/ StopRelay
    \/ StopJoinRelay
    \/ StopCleanupLow
    \/ StopCleanupRelease
    \/ StopJoinWatchdog
    \/ WdWake
    \/ WdExit
    \/ WdCheckController
    \/ WdCheckRelay
    \/ WdStartController
    \/ WdStartRelay

\* The service from construction through start() to the return of stop(),
\* with the controller loop, the relay loop and the watchdog; the clock
\* stands still.
SpecSvc == InitSvc /\ [][NextSvc]_vars


\* ------------------------------------------ the control-hold action threads
SdOutcomes == {"ok", "not_found", "run_failed", "nonzero"}

\* The message _run_systemd_setup records for an outcome other than "ok"
\* (lines 645, 651 and 656-658).
SdMessage(mode, outcome) ==
    IF outcome = "not_found" THEN "systemd_setup.sh not found"
    ELSE IF outcome = "run_failed" THEN "Failed to run systemd_setup.sh -" \o mode
    ELSE "systemd_setup.sh -" \o mode \o " failed"

\* _run_systemd_setup, line 639: a spawned thread reaches
\* _systemd_lock.acquire(blocking=False).  It takes the lock when it is free;
\* otherwise it logs "command already running" and returns.
SdAcquire(mode) ==
    /\ sd_pending[mode] > 0
    /\ sd_pending' = [sd_pending EXCEPT ![mode] = @ - 1]
    /\ sd_running' = IF sd_running = "none" THEN mode ELSE sd_running
    /\ UNCHANGED <<clock, cfg_vars, pump_db, direct_read, bool_buffers, sink_entries, poll_obs, cache_vars, svc_vars, state, error_log, hold_vars, signals, ctl_pc,
                   hold_actions, events, episode_fatal_events, log_sink, relay_vars>>

\* _run_systemd_setup, lines 642-660: the thread that holds the lock ends
\* with an outcome; every outcome but "ok" calls _record_error from this
\* thread, the state mutex not taken; the lock is released.
SdFinish ==
    /\ sd_running /= "none"
    /\ \E outcome \in SdOutcomes :
          IF outcome = "ok"
          THEN UNCHANGED <<state, error_log, events, episode_fatal_events, log_sink>>
          ELSE Commit(_record_error(Ctx(state, error_log),
                                    SdMessage(sd_running, outcome), clock), FALSE)
    /\ sd_running' = "none"
    /\ UNCHANGED <<clock, cfg_vars, pump_db, direct_read, bool_buffers, sink_entries, poll_obs, cache_vars, svc_vars, sd_pending, hold_vars, signals, ctl_pc,
                   hold_actions, relay_vars>>

\* The snapshots in which the pump inputs are low and the three control
\* channels take every value.
HoldSnapshots ==
    {s \in SignalSnapshots(BOOLEAN, BOOLEAN) :
        ~s.tank_full /\ ~s.manual_start /\ ~s.tank_empty}

NextHold ==
    \/ Tick
    \/ CtlReadStale
    \/ CtlReadOk(HoldSnapshots)
    \/ CtlHolds
    \/ CtlApplyEnter
    \/ CtlApplyTable
    \/ \E mode \in Modes : SdAcquire(mode)
    \/ SdFinish

\* The controller loop with the three control-hold channels and the
\* threads the service_on / service_off holds spawn; the pump inputs stay low.
SpecHold == Init /\ [][NextHold]_vars

\* The controller loop alone, the log-dedup fields of PumpState and the
\* messages handed to the log sink observed.
InitLog == InitCfg({MaxThreshold - 1}, TRUE, TRUE, {0})

NextLog ==
    \/ Tick
    \/ CtlReadStale
    \/ CtlReadOk(SignalSnapshots({FALSE}, BOOLEAN))
    \/ CtlHolds
    \/ CtlApplyEnter
    \/ CtlApplyTable

SpecLog == InitLog /\ [][NextLog]_vars

\* ----------------------------------------------------- steps, for the claims
\* A step of the controller loop or of the relay loop is told from the
\* variables it changes.
RelayUnchanged == UNCHANGED relay_vars

\* A poll whose read_signals call failed (CtlReadStale).
StalePollStep ==
    ctl_pc = "idle" /\ ctl_pc' = "idle" /\ clock' = clock /\ RelayUnchanged

\* The step that ends a poll whose read succeeded (CtlApplyEnter returning
\* early, or CtlApplyTable).
OkPollEndStep == ctl_pc \in {"apply", "table"} /\ ctl_pc' = "idle"

\* The truth table is evaluated (CtlApplyTable).
TableStep == ctl_pc = "table" /\ ctl_pc' = "idle"

\* The clear-fatal hold action is invoked (inside CtlHolds).
ClearFatalStep ==
    ctl_pc = "holds" /\ ctl_pc' = "apply" /\ "clear_fatal" \in hold_actions'

Active(st) == st.current_state \in {"pumping", "manual_pumping"}

\* --------------------------------------------------------------------- C1
\* C1: whenever the state mutex is free, fatal_error = true implies
\* current_state = NotPumping.
C1_FatalImpliesNotPumping ==
    LockFree => (state.fatal_error => state.current_state = "not_pumping")


\* --------------------------------------------------------------------- C2
\* C2: on every relay tick the snapshot is the PumpState of that moment, and
\* the actuator is commanded ON iff that snapshot has current_state in
\* {Pumping, ManualPumping} and fatal_error = false, OFF otherwise; never ON
\* from a snapshot with fatal_error true.
C2_RelayFollowsSnapshot ==
    /\ [][relay_pc = "read" /\ relay_pc' = "write"
            => /\ relay_snap'.current_state = state.current_state
               /\ relay_snap'.fatal_error = state.fatal_error]_vars
    /\ [][relay_pc = "write" /\ relay_pc' = "read"
            => relay_cmd' = (/\ relay_snap.current_state \in {"pumping", "manual_pumping"}
                             /\ relay_snap.fatal_error = FALSE)]_vars
    /\ [](relay_pc = "read" /\ relay_snap.fatal_error => ~relay_cmd)

\* A tick has commanded ON from a ManualPumping snapshot.
C2_Witness ==
    /\ relay_pc = "read"
    /\ relay_cmd
    /\ relay_snap.current_state = "manual_pumping"
    /\ ~relay_snap.fatal_error

\* --------------------------------------------------------------------- C3
\* C3: a failed read that finds the staleness streak at least
\* adc_stale_fatal_seconds old ends with fatal_error true; throughout a
\* staleness streak current_state is NotPumping, and every relay tick whose
\* snapshot is taken during the streak commands OFF.
C3_StaleFatalRelayOff ==
    /\ [][StalePollStep /\ state'.adc_stale_started_at /= None
            /\ clock - state'.adc_stale_started_at >= adc_stale_fatal_seconds
            => state'.fatal_error]_vars
    /\ [](state.adc_stale_started_at /= None => state.current_state = "not_pumping")
    /\ [](relay_pc = "read" /\ relay_snap.adc_stale_started_at /= None
            => ~relay_cmd /\ ~gpio.level)

\* The streak began by stopping a running pump, has lasted
\* adc_stale_fatal_seconds, and a tick has read it.
C3_Witness ==
    /\ state.fatal_error
    /\ state.adc_stale_started_at /= None
    /\ clock - state.adc_stale_started_at >= adc_stale_fatal_seconds
    /\ state.last_stop_time = state.adc_stale_started_at
    /\ state.error_started_at = None
    /\ relay_pc = "read"
    /\ relay_snap.adc_stale_started_at /= None
    /\ relay_snap.fatal_error
    /\ ~relay_cmd

\* --------------------------------------------------------------------- C4
\* C4: a poll whose read fails ends with current_state = NotPumping and
\* adc_stale_started_at set (stamped now on the first failure, kept by later
\* ones), and emits exactly one Pump Stop if the pump was active before it,
\* none otherwise.
C4_StalePollFailSafe ==
    [][StalePollStep =>
         /\ state'.current_state = "not_pumping"
         /\ state'.adc_stale_started_at =
               (IF state.adc_stale_started_at = None THEN clock
                ELSE state.adc_stale_started_at)
         /\ CountEvents(events', "Pump Stop") = (IF Active(state) THEN 1 ELSE 0)]_vars

\* A second failed read of a streak that began by stopping the pump.
C4_Witness ==
    /\ ctl_pc = "idle"
    /\ state.adc_stale_started_at /= None
    /\ state.adc_stale_started_at < clock
    /\ state.last_stop_time = state.adc_stale_started_at
    /\ events = <<>>
    /\ state.current_state = "not_pumping"
    /\ ~state.fatal_error


\* --------------------------------------------------------------------- C5
\* The poll that ends read tank_full and tank_empty both true (1 0 1, 1 1 1).
ContradictoryPollEnd == OkPollEndStep /\ signals.tank_full /\ signals.tank_empty

\* C5 as stated: no poll that reads tank_full and tank_empty both true leaves
\* current_state in {Pumping, ManualPumping} with fatal_error = false.
C5_NeverRunsOnContradiction ==
    [][ContradictoryPollEnd => ~(Active(state') /\ ~state'.fatal_error)]_vars

\* C5 as amended: a poll that reads tank_full and tank_empty both true may
\* leave the pump running, but then the error timer is set and has run for
\* less than error_threshold; never does it leave ManualPumping entered from
\* NotPumping, and once the timer has reached error_threshold it ends fatal.
C5_RunsOnContradictionOnlyBelowThreshold ==
    [][ContradictoryPollEnd /\ Active(state') /\ ~state'.fatal_error
         => /\ state'.error_started_at /= None
            /\ clock - state'.error_started_at < error_threshold
            /\ state'.current_state =
                  (IF state.current_state = "not_pumping" THEN "pumping"
                   ELSE state.current_state)]_vars

\* A 1 0 1 / 1 1 1 poll has just moved NotPumping to Pumping without a start
\* event, the error timer running.
C5_Witness ==
    /\ ctl_pc = "idle"
    /\ state.current_state = "pumping"
    /\ ~state.fatal_error
    /\ state.error_started_at = clock
    /\ state.pump_start_time = None
    /\ events = <<>>
    /\ error_threshold > 0

\* --------------------------------------------------------------------- C6
\* The relay pin is low before start() and after stop() has returned.
PinLowAtConstructAndAfterStop ==
    stop_pc \in {"constructed", "returned"} => ~gpio.level

\* The relay loop passes a value to PumpRelay.set_state after stop() has
\* returned.
WriteAfterStopStep ==
    stop_pc = "returned" /\ relay_pc = "write" /\ relay_pc' = "read"

\* C6: the actuator is OFF when PumpRelay is constructed; once stop() (or
\* shutdown()) has returned the actuator is OFF and no thread commands it ON
\* afterwards, whatever the PumpState and however the shutdown interleaves
\* with the relay loop and the watchdog.
C6_OffAfterStop ==
    /\ []PinLowAtConstructAndAfterStop
    /\ [][WriteAfterStopStep => ~relay_cmd']_vars

\* --------------------------------------------------------------------- C7
\* C7: fatal_error goes from true to false only in the clear-fatal hold
\* action, taken in a poll whose read succeeded with the clear_fatal channel
\* high for at least control_hold_seconds; a successful poll that reaches
\* _apply_signals with fatal_error true leaves current_state and fatal_error
\* unchanged and emits no start event.
C7_FatalUntilCleared ==
    /\ [][state.fatal_error /\ ~state'.fatal_error
            => /\ ClearFatalStep
               /\ signals.clear_fatal
               /\ control_hold_start'["clear_fatal"] /= None
               /\ clock - control_hold_start'["clear_fatal"] >= control_hold_seconds]_vars
    /\ [][OkPollEndStep /\ state.fatal_error
            => /\ state'.fatal_error
               /\ state'.current_state = state.current_state
               /\ CountEvents(events', "Auto Pump Start") = 0
               /\ CountEvents(events', "Manual Pump Start") = 0]_vars

\* A fatal raised by the staleness path (no error timer) has been followed by
\* a whole successful poll (the staleness timer is reset) and is still fatal.
C7_Witness ==
    /\ ctl_pc = "idle"
    /\ state.fatal_error
    /\ state.current_state = "not_pumping"
    /\ state.adc_stale_started_at = None
    /\ state.error_started_at = None
    /\ events = <<>>


\* --------------------------------------------------------------------- C8
\* C8: exactly one Fatal Error event per fatal episode: while fatal_error is
\* true exactly one has been emitted since the last clear-fatal action, and
\* none while it is false; fatal_sent is true exactly during the episode and
\* goes back to false only in the clear-fatal action.
C8_OneFatalEventPerEpisode ==
    /\ [](state.fatal_error => episode_fatal_events = 1)
    /\ [](~state.fatal_error => episode_fatal_events = 0)
    /\ [](state.fatal_sent <=> state.fatal_error)
    /\ [][state.fatal_sent /\ ~state'.fatal_sent => ClearFatalStep]_vars

\* An episode in which the error timer and the staleness timer have both
\* expired.
C8_Witness ==
    /\ state.fatal_error
    /\ state.error_started_at /= None
    /\ clock - state.error_started_at >= error_threshold
    /\ state.adc_stale_started_at /= None
    /\ clock - state.adc_stale_started_at >= adc_stale_fatal_seconds
    /\ episode_fatal_events = 1

\* --------------------------------------------------------------------- C9
\* C9: a successful poll raises fatal_error only when the error timer has
\* run for at least error_threshold, and every successful poll that ends with
\* the timer that old ends fatal; while fatal exactly one Fatal Error event
\* has been emitted, and every relay tick that reads fatal_error commands OFF.
C9_ErrorEscalation ==
    /\ [][OkPollEndStep /\ ~state.fatal_error /\ state'.fatal_error
            => /\ state'.error_started_at /= None
               /\ clock - state'.error_started_at >= error_threshold]_vars
    /\ [][OkPollEndStep /\ state'.error_started_at /= None
            /\ clock - state'.error_started_at >= error_threshold
            => state'.fatal_error]_vars
    /\ [](state.fatal_error => episode_fatal_events = 1 /\ state.fatal_sent)
    /\ [](relay_pc = "read" /\ relay_snap.fatal_error => ~relay_cmd /\ ~gpio.level)

\* The error timer has run past a positive error_threshold with no stale
\* read, the poll after the escalation has ended, and a relay tick has read
\* the fatal state.
C9_Witness ==
    /\ ctl_pc = "idle"
    /\ error_threshold > 0
    /\ state.fatal_error
    /\ state.error_started_at /= None
    /\ clock - state.error_started_at >= error_threshold
    /\ state.adc_stale_started_at = None
    /\ episode_fatal_events = 1
    /\ events = <<>>
    /\ relay_pc = "read"
    /\ relay_snap.fatal_error
    /\ ~relay_cmd

\* -------------------------------------------------------------------- C10
\* The resulting state of the section 4.2 table.
TableOf(s, p1, p2, p3) ==
    IF ~p1 /\ ~p2 /\ ~p3 THEN s
    ELSE IF p1 /\ p3 THEN (IF s = "not_pumping" THEN "pumping" ELSE s)
    ELSE IF ~p1 /\ p2 /\ p3 THEN "not_pumping"
    ELSE IF p1 /\ ~p3 THEN "pumping"
    ELSE IF ~p1 /\ p2 /\ ~p3 THEN (IF s = "not_pumping" THEN "manual_pumping" ELSE s)
    ELSE "not_pumping"

\* C10: when the truth table is evaluated and the poll does not escalate to
\* fatal, current_state after the poll is the one the section 4.2 table gives
\* for the prior state and (tank_full, manual_start, tank_empty).
C10_TruthTableState ==
    [][TableStep /\ ~state'.fatal_error
         => state'.current_state =
               TableOf(state.current_state, signals.tank_full,
                       signals.manual_start, signals.tank_empty)]_vars

\* 1 1 0 read in ManualPumping has moved the state to Pumping.
C10_Witness ==
    /\ ctl_pc = "idle"
    /\ state.current_state = "pumping"
    /\ ~state.fatal_error
    /\ CountEvents(events, "Auto Pump Start") = 1
    /\ state.error_started_at = clock
    /\ state.pump_start_time /= None
    /\ state.pump_start_time < clock

\* -------------------------------------------------------------------- C11
\* The pump event the section 4.2 table gives for a prior state and a
\* combination of (tank_full, manual_start, tank_empty); <<>> when none.
TableEvents(s, p1, p2, p3) ==
    IF p1 /\ ~p3 /\ s /= "pumping" THEN <<"Auto Pump Start">>
    ELSE IF ~p1 /\ p2 /\ ~p3 /\ s = "not_pumping" THEN <<"Manual Pump Start">>
    ELSE IF ~p1 /\ p3 /\ s \in ActiveStates THEN <<"Pump Stop">>
    ELSE <<>>

\* The types of the start and stop events among evs, in order; the
\* "Fatal Error" event belongs to the escalation and not to the table.
StartStopTypes(evs) ==
    LET kept == SelectSeq(evs, LAMBDA e : e.event_type /= "Fatal Error")
    IN  [i \in DOMAIN kept |-> kept[i].event_type]

\* C11 as stated: every successful poll that finds a non-fatal state emits
\* exactly the pump event the section 4.2 table gives for the prior state and
\* the combination read, and no other pump event.
C11_TableEventsOnEveryPoll ==
    [][OkPollEndStep /\ ~state.fatal_error
         => [i \in DOMAIN events' |-> events'[i].event_type] =
               TableEvents(state.current_state, signals.tank_full,
                           signals.manual_start, signals.tank_empty)]_vars

\* C11 as amended: a poll that evaluates the truth table (state not fatal,
\* error timer not expired when the poll begins) emits exactly the start or
\* stop event the section 4.2 table gives for the prior state and the
\* combination read, and no other start or stop event; a "Fatal Error"
\* event may accompany it when the poll itself escalates.
C11_TruthTableEvents ==
    [][TableStep
         => StartStopTypes(events') =
               TableEvents(state.current_state, signals.tank_full,
                           signals.manual_start, signals.tank_empty)]_vars

\* 1 0 0 or 1 1 0 read in ManualPumping: one Auto Pump Start, the start time
\* of the manual run kept.
C11_Witness ==
    /\ ctl_pc = "idle"
    /\ state.current_state = "pumping"
    /\ Len(events) = 1
    /\ events[1].event_type = "Auto Pump Start"
    /\ state.pump_start_time /= None
    /\ state.pump_start_time < events[1].source_timestamp

\* -------------------------------------------------------------------- C12
\* _handle_control_holds runs (CtlHolds).
HoldsStep == ctl_pc = "holds" /\ ctl_pc' = "apply"

\* Channel c has been read high since control_hold_start[c] (or since this
\* poll), for at least control_hold_seconds, and its action has not been
\* invoked for this hold.
HoldDue(c) ==
    /\ signals[c]
    /\ ~control_hold_fired[c]
    /\ clock - (IF control_hold_start[c] = None THEN clock ELSE control_hold_start[c])
          >= control_hold_seconds

CLEARED_MESSAGE == [fatal |-> FALSE, text |-> "Cleared fatal error state"]

\* C12: the clear action is invoked in the poll in which the clear_fatal
\* channel has been high for control_hold_seconds and not yet fired; if
\* fatal_error is true then, right after it fatal_error and fatal_sent are
\* false and both timers are unset; while the channel stays high the hold
\* stays fired and the action is not invoked again.
C12_ClearAppliedOncePerHold ==
    [][HoldsStep
         => /\ ("clear_fatal" \in hold_actions') <=> HoldDue("clear_fatal")
            /\ (HoldDue("clear_fatal") /\ state.fatal_error)
                  => /\ ~state'.fatal_error
                     /\ ~state'.fatal_sent
                     /\ state'.error_started_at = None
                     /\ state'.adc_stale_started_at = None
            /\ (signals.clear_fatal /\ control_hold_fired.clear_fatal)
                  => /\ control_hold_fired'.clear_fatal
                     /\ state' = state
            /\ HoldDue("clear_fatal") => control_hold_fired'.clear_fatal]_vars

\* The clear has been applied to a fatal state in an earlier poll, and the
\* running poll reads the channel still high without clearing again.
C12_Witness ==
    /\ ctl_pc = "apply"
    /\ signals.clear_fatal
    /\ control_hold_fired.clear_fatal
    /\ "clear_fatal" \notin hold_actions
    /\ error_log.last_error_message = CLEARED_MESSAGE
    /\ ~state.fatal_error
    /\ log_sink = <<>>

\* -------------------------------------------------------------------- C13
\* C13: the clear-fatal action invoked while fatal_error is false changes no
\* PumpState field (the log-dedup fields included), emits no event and
\* writes nothing to the log sink.
C13_ClearWhileNotFatalIsNoOp ==
    [][(ClearFatalStep /\ ~state.fatal_error)
         => /\ state' = state
            /\ error_log' = error_log
            /\ log_sink' = log_sink
            /\ events' = events]_vars

\* The clear action has just been invoked on a controller that has never
\* recorded a message, hence never been fatal.
C13_Witness ==
    /\ ctl_pc = "apply"
    /\ "clear_fatal" \in hold_actions
    /\ ~state.fatal_error
    /\ error_log = ErrorLog
    /\ log_sink = <<>>

\* -------------------------------------------------------------------- C14
\* C14: for each control-hold channel on its own, the bound action is
\* invoked exactly in the poll in which the run of high reads has lasted
\* control_hold_seconds and has not invoked it yet; the run is stamped at its
\* first high read and ends, re-arming the hold, at the first low read.
C14_HoldFiresOncePerRun ==
    [][HoldsStep
         => \A c \in HoldChannels :
               /\ (c \in hold_actions') <=> HoldDue(c)
               /\ signals[c]
                     => /\ control_hold_start'[c] =
                              (IF control_hold_start[c] = None THEN clock
                               ELSE control_hold_start[c])
                        /\ control_hold_fired'[c] = (control_hold_fired[c] \/ HoldDue(c))
               /\ ~signals[c]
                     => /\ control_hold_start'[c] = None
                        /\ ~control_hold_fired'[c]]_vars

\* service_on has been held, released and held again: its action has been
\* invoked twice, that of service_off once, and none of the three spawned
\* threads has reached the lock yet.
C14_Witness ==
    /\ sd_pending["on"] = 2
    /\ sd_pending["off"] = 1
    /\ sd_running = "none"
    /\ control_hold_fired["service_on"]

\* -------------------------------------------------------------------- C15
\* A spawned thread finds _systemd_lock taken and returns without running
\* the command of its mode.
SdSkipStep(mode) ==
    sd_pending'[mode] < sd_pending[mode] /\ sd_running /= "none"

\* C15: every hold of service_on / service_off that fires has its command
\* run; a spawned thread is skipped only when the command still running is
\* of its own mode.
C15_OnlySameModeSkipped ==
    [][\A mode \in Modes : SdSkipStep(mode) => sd_running = mode]_vars

\* ------------------------------------------------------ event-sink failures
\* The controller with an event sink that may fail: any one insert_pump_event
\* call of a handler may raise.
MaxFaultCall == 2

InitFault == InitCfg({MaxThreshold - 1}, FALSE, TRUE, 0 .. MaxFaultCall)

NextFault ==
    \/ Tick
    \/ CtlReadStale
    \/ CtlReadOk(SignalSnapshots({FALSE}, BOOLEAN))
    \/ CtlHolds
    \/ CtlApplyEnter
    \/ CtlApplyTable

SpecFault == InitFault /\ [][NextFault]_vars

\* The controller thread ends.
CtlDies == ctl_pc /= "done" /\ ctl_pc' = "done"

\* C16: no failure of a sub-step of a poll ends the controller poll loop; the
\* loop ends only when its stop event is set.
C16_PollLoopOutlivesFailures == [][CtlDies => ctl_stop_event]_vars

\* ------------------------------------------------- the watchdog's restarts
\* PumpRelayWorker._run, lines 973-981: the relay thread ends although its
\* stop event is clear (an exception that "except Exception" lets through),
\* the case the watchdog's second test exists for.
RelayCrash ==
    /\ relay_pc \in {"read", "write"}
    /\ ~relay_stop_event
    /\ relay_pc' = "done"
    /\ UNCHANGED <<clock, cfg_vars, pump_db, direct_read, bool_buffers, sink_entries, poll_obs, cache_vars, svc_vars, sd_vars, state, error_log, hold_vars, signals,
                   ctl_pc, hold_actions, events, episode_fatal_events, log_sink,
                   relay_snap, relay_cmd, gpio>>

\* The snapshots of the watchdog specification: the tank switches only.
WdSnapshots ==
    {s \in SignalSnapshots({FALSE}, {FALSE}) : ~s.manual_start}

InitWd == InitCfg({MaxSvcThreshold}, FALSE, TRUE, {0, 1})

\* The steps of the watchdog thread.
WdNext ==
    \/ WdWake
    \/ WdExit
    \/ WdCheckController
    \/ WdStartController
    \/ WdCheckRelay
    \/ WdStartRelay

NextWd ==
    \/ CtlReadStale
    \/ CtlReadOk(WdSnapshots)
    \/ CtlHolds
    \/ CtlApplyEnter
    \/ CtlApplyTable
    \/ RelayTick
    \/ RelayCrash
    \/ StopSetEvent
    \/ WdNext

\* The running service with a failing event sink and a relay thread that may
\* end, up to the request of a shutdown.  The watchdog thread is scheduled:
\* its wait of 5 seconds times out and each of its calls returns.  The
\* controller releases the state mutex (every section is a "with" block)
\* and leaves it free while it waits loop_delay between two polls, so the
\* watchdog's get_state, which blocks on the mutex, obtains it.
SpecWd ==
    /\ InitWd
    /\ [][NextWd]_vars
    /\ WF_vars(WdNext)
    /\ SF_vars(WdCheckRelay)
    /\ WF_vars(CtlApplyTable)

Shutdown == svc_stop_event

\* A thread started by the watchdog was announced in the error log.
RestartLogged ==
    /\ (ctl_pc = "done" /\ ctl_pc' /= "done") => wd_log.text = "Restarting controller loop"
    /\ (relay_pc = "done" /\ relay_pc' /= "done") => wd_log.text = "Restarting relay loop"

RelayCommandStep == relay_pc /= "done" /\ relay_cmd' /= relay_cmd

\* C18: the relay loop drives the actuator after a restart by the watchdog
\* as it did before: on each tick the output becomes ON when the snapshot is
\* Pumping or ManualPumping with fatal_error false, and OFF otherwise.
C18_RestartedRelayDrivesActuator ==
    [][RelayCommandStep
         => /\ relay_cmd' = PumpOn(get_state(state))
            /\ gpio'.level = relay_cmd']_vars

\* ------------------------------------------------- readers during a poll
InitPoll ==
    InitCore({MaxThreshold - 1}, FALSE, TRUE, {0}) /\ poll_obs = PollObs(TRUE) /\ CacheOff

NextPoll ==
    \/ Tick
    \/ CtlReadStale
    \/ CtlReadOk(SignalSnapshots({FALSE}, BOOLEAN))
    \/ CtlHolds
    \/ CtlApplyEnter
    \/ CtlApplyTable
    \/ RelayTick

\* The controller and the relay loop, with the history of the snapshots the
\* relay loop takes while a poll runs.
SpecPoll == InitPoll /\ [][NextPoll]_vars

\* C19: a concurrent get_state returns only the PumpState of before the
\* running poll or of after it: a snapshot taken while a poll runs equals
\* the state the poll started from or the state it ends with.
C19_ReadersSeeWholePolls ==
    [][OkPollEndStep => poll_obs.mid \in {poll_obs.pre, get_state(state')}]_vars

\* ------------------------------------------------- the writers of PumpState
InitHoldLog == InitCfg({MaxThreshold - 1}, TRUE, TRUE, {0})

\* The snapshots in which only the service channels are high.
ServiceSnapshots == {s \in HoldSnapshots : ~s.clear_fatal}

NextHoldLog ==
    \/ Tick
    \/ CtlReadOk(ServiceSnapshots)
    \/ CtlHolds
    \/ CtlApplyEnter
    \/ CtlApplyTable
    \/ \E mode \in Modes : SdAcquire(mode)
    \/ SdFinish

\* The controller and the control-hold action threads, with the log-dedup
\* fields of PumpState observed.
SpecHoldLog == InitHoldLog /\ [][NextHoldLog]_vars

\* A step of the controller loop thread: a poll moves on, or a stale poll
\* runs; no control-hold action thread ends in it.
CtlStep == (ctl_pc' /= ctl_pc \/ StalePollStep) /\ sd_running' = sd_running

PumpStateWritten == state' /= state \/ error_log' /= error_log

\* C20: every modification of a PumpState field, last_error_message and
\* last_error_log_time included, is made by the controller loop thread; the
\* background control-hold action threads never write PumpState.
C20_OnlyControllerWritesState == [][PumpStateWritten => CtlStep]_vars

\* --------------------------------------------------------------------- C21
\* A loop thread that was not alive is alive again.
LoopStarted ==
    \/ ctl_pc = "done" /\ ctl_pc' /= "done"
    \/ relay_pc = "done" /\ relay_pc' /= "done"
    \/ wd_pc = "done" /\ wd_pc' /= "done"

\* C21: once stop() has been called no loop is running again: no controller,
\* relay or watchdog thread is started after the service's stop event is
\* set, however the call interleaves with a watchdog iteration that is past
\* its wait.
C21_NoLoopStartedAfterStop == [][Shutdown => ~LoopStarted]_vars

\* ------------------------------------------------- reads of the ADC cache
\* The payloads the cache file can hold: unreadable or readable, with a
\* "monotonic" field that is missing, not a number or a time, with or
\* without a signals map, and with a volts map that is missing, complete or
\* short of one of the three sampled channels.
SignalMaps ==
    { [k \in SampledNames |-> k = "tank_full"],
      [k \in SignalNames |-> k \in {"tank_empty", "clear_fatal"}] }

VoltMaps == {SampledNames} \cup {SampledNames \ {k} : k \in SampledNames}

Payloads ==
    [readable : BOOLEAN,
     monotonic : {None, NotANumber} \cup (0 .. MaxTime),
     signals : {NoMap} \cup SignalMaps,
     volts : {NoVolts} \cup VoltMaps]

\* The cache file is replaced by another payload (adc_cache.write_cache:
\* os.replace), or becomes unreadable.
CacheReplace ==
    /\ \E p \in Payloads : cache' = p
    /\ UNCHANGED <<clock, cfg_vars, pump_db, direct_read, bool_buffers, sink_entries, poll_obs, pins, reader_out, svc_vars, sd_vars, state,
                   error_log, hold_vars, signals, ctl_pc, hold_actions, events,
                   episode_fatal_events, log_sink, relay_vars>>

\* One call of CachedSignalReader.read_signals.
ReaderRead ==
    /\ LET r == read_signals(cache, clock, AdcStaleSeconds)
       IN  reader_out' = [err |-> r.err, signals |-> r.signals, at |-> clock]
    /\ UNCHANGED <<clock, cfg_vars, pump_db, direct_read, bool_buffers, sink_entries, poll_obs, cache, pins, svc_vars, sd_vars, state,
                   error_log, hold_vars, signals, ctl_pc, hold_actions, events,
                   episode_fatal_events, log_sink, relay_vars>>

InitReader ==
    /\ InitCore({0}, FALSE, FALSE, {0})
    /\ poll_obs = PollObs(FALSE)
    /\ cache \in Payloads
    /\ pins = [c \in HoldChannels |-> FALSE]
    /\ reader_out = NoRead

NextReader ==
    \/ Tick
    \/ CacheReplace
    \/ ReaderRead

\* The cached reader alone: any payload, read at any time.
SpecReader == InitReader /\ [][NextReader]_vars

\* A call of read_signals has returned or raised.
ReadStep == reader_out' /= reader_out

\* The payload cannot be served: it cannot be read, has no usable
\* timestamp, is older than the limit, or lacks the signals map, the volts
\* map or a voltage of a sampled channel.
Unservable(payload, now) ==
    \/ ~payload.readable
    \/ payload.monotonic \in {None, NotANumber}
    \/ now - payload.monotonic > AdcStaleSeconds
    \/ payload.signals = NoMap
    \/ payload.volts = NoVolts
    \/ ~(SampledNames \subseteq payload.volts)

DebounceSamples == 3

\* adc_service._compute_signal over a buffer of samples, each sample given
\* as "its voltage reaches the threshold": a majority vote, ties high.
CeilHalf(n) == (n + 1) \div 2

_compute_signal(buffer) ==
    IF buffer = <<>> THEN FALSE
    ELSE Cardinality({i \in DOMAIN buffer : buffer[i]}) >= CeilHalf(Len(buffer))

\* The buffers of one channel: the latest 1 .. DebounceSamples samples.
Buffers == UNION {[1 .. n -> BOOLEAN] : n \in 1 .. DebounceSamples}

\* The control inputs the environment presents: none, or one of them high.
ControlPins ==
    {[c \in HoldChannels |-> c = h] : h \in HoldChannels \cup {"none"}}

\* adc_service.main, lines 101-141: one iteration of the sampling loop.  It
\* samples tank_full, manual_start and tank_empty, and publishes their votes
\* and voltages with the monotonic time; the control inputs have the levels
\* the environment gives them.  manual_start and tank_empty are quiet here.
Sample ==
    /\ \E buffer \in Buffers, p \in ControlPins :
          /\ cache' = [readable |-> TRUE,
                       monotonic |-> clock,
                       signals |-> [k \in SampledNames |->
                                       IF k = "tank_full" THEN _compute_signal(buffer)
                                       ELSE _compute_signal(<<FALSE>>)],
                       volts |-> SampledNames]
          /\ pins' = p
    /\ UNCHANGED <<clock, cfg_vars, pump_db, direct_read, bool_buffers, sink_entries, poll_obs, reader_out, svc_vars, sd_vars, state,
                   error_log, hold_vars, signals, ctl_pc, hold_actions, events,
                   episode_fatal_events, log_sink, relay_vars>>

\* _run with the CachedSignalReader: the read of one poll.
CtlCacheStale ==
    /\ read_signals(cache, clock, AdcStaleSeconds).err = "stale"
    /\ CtlReadStale

CtlCacheOk ==
    /\ read_signals(cache, clock, AdcStaleSeconds).err = "ok"
    /\ CtlReadOk({read_signals(cache, clock, AdcStaleSeconds).signals})

InitCache == InitCfg({MaxThreshold - 1}, FALSE, TRUE, {0})

NextCache ==
    \/ Tick
    \/ Sample
    \/ CtlCacheStale
    \/ CtlCacheOk
    \/ CtlHolds
    \/ CtlApplyEnter
    \/ CtlApplyTable

\* The controller of pump_controller.py, which reads the cache the sampling
\* process publishes.
SpecCache == InitCache /\ [][NextCache]_vars

\* A poll's read has succeeded.
ReadOkStep == ctl_pc = "idle" /\ ctl_pc' = "holds"

\* --------------------------------------------------------------------- C23
\* C23: behind the cache, read_signals returns all six channels and
\* service_on, service_off and clear_fatal have the levels of the physical
\* inputs at the time of the sample (so that a held clear_fatal input
\* clears a fatal state).
C23_ControlChannelsReflectInputs ==
    [][ReadOkStep =>
         /\ DOMAIN signals' = SignalNames
         /\ \A c \in HoldChannels : signals'[c] = pins[c]]_vars

\* --------------------------------------------------------------------- C24
\* The poll that ends read (0,0,0) or (0,1,1).
Read000 == ~signals.tank_full /\ ~signals.manual_start /\ ~signals.tank_empty
Read011 == ~signals.tank_full /\ signals.manual_start /\ signals.tank_empty

\* The timer is unset and the state not fatal; after (0,0,0) current_state
\* is as before.
TimerResetNoFatal ==
    /\ state'.error_started_at = None
    /\ ~state'.fatal_error
    /\ Read000 => state'.current_state = state.current_state

\* C24 as stated: every poll with fatal_error false that reads (0,0,0) or
\* (0,1,1) ends with error_started_at unset and fatal_error false, however
\* long the error streak had been running.
C24_EscapeHatchAlways ==
    [][OkPollEndStep /\ ~state.fatal_error /\ (Read000 \/ Read011)
         => TimerResetNoFatal]_vars

\* C24 as amended: a poll that reads (0,0,0) or (0,1,1) and reaches the truth
\* table (not fatal, the error timer short of error_threshold when
\* _apply_signals begins) ends with error_started_at unset and fatal_error
\* false, current_state unchanged after (0,0,0); a poll that begins with the
\* timer at error_threshold or beyond ends fatal whatever it read.
C24_EscapeHatchBeforeThreshold ==
    /\ [][TableStep /\ (Read000 \/ Read011) => TimerResetNoFatal]_vars
    /\ [][OkPollEndStep /\ ~TableStep => state'.fatal_error]_vars

\* (0,1,1) has stopped a pump that an error row had started (no start time),
\* resetting the timer that row had set.
C24_Witness ==
    /\ ctl_pc = "idle"
    /\ state.current_state = "not_pumping"
    /\ ~state.fatal_error
    /\ state.error_started_at = None
    /\ Len(events) = 1
    /\ events[1].event_type = "Pump Stop"
    /\ events[1].pump_run_time_s = None
    /\ error_threshold > 0

\* --------------------------------------------------------------------- C25
\* The number of events of a type the step hands to the event sink.
EmittedInStep(type) ==
    CountEvents(events', type) - (IF ctl_pc = "idle" THEN 0 ELSE CountEvents(events, type))

\* The step takes current_state from Pumping or ManualPumping to NotPumping.
StopsPumping == Active(state) /\ ~Active(state')

\* The pump-stop sequence has run at the time of the step.
PumpStopSequence ==
    /\ EmittedInStep("Pump Stop") = 1
    /\ state'.pump_end_time = clock
    /\ state'.last_stop_time = clock
    /\ state'.pump_start_time = None

\* C25: every change of current_state from Pumping or ManualPumping to
\* NotPumping, by rows 011 or 001, by a failed read or by fatal escalation,
\* runs the pump-stop sequence: one PumpStop event, pump_end_time and
\* last_stop_time set to the time of the stop, pump_start_time cleared.
C25_EveryStopRunsPumpStop == [][StopsPumping => PumpStopSequence]_vars

\* --------------------------------------------------------------------- C26
Read001 == ~signals.tank_full /\ ~signals.manual_start /\ signals.tank_empty

\* The event the step emitted last.
LastEvent == events'[Len(events')]

\* A relay tick: the command is computed from the PumpState of the moment
\* and written to the pin.
RelayTickFollowsState ==
    relay_cmd' /= relay_cmd \/ gpio' /= gpio
        => relay_cmd' = PumpOn(get_state(state)) /\ gpio'.level = relay_cmd'

\* C26: every poll in state Pumping that reads (0,0,1) ends in NotPumping
\* with one PumpStop event whose pump_run_time_s is not null, however Pumping
\* was reached.
C26_StopAlwaysHasRunTime ==
    [][OkPollEndStep /\ state.current_state = "pumping" /\ ~state.fatal_error /\ Read001
         => /\ state'.current_state = "not_pumping"
            /\ EmittedInStep("Pump Stop") = 1
            /\ LastEvent.pump_run_time_s /= None]_vars

\* --------------------------------------------------------------------- C27
Read100 == signals.tank_full /\ ~signals.manual_start /\ ~signals.tank_empty
Read110 == signals.tank_full /\ signals.manual_start /\ ~signals.tank_empty

\* Row 1 0 0 or 1 1 0 takes current_state into Pumping.
FillStartStep ==
    /\ TableStep
    /\ Read100 \/ Read110
    /\ state.current_state /= "pumping"
    /\ state'.current_state = "pumping"

\* The fill-start sequence: one AutoPumpStart event, with the interval since
\* pump_end_time when that was set, and without interval and flow rate when
\* it was not; pump_end_time is unset afterwards.
FillStartSequence ==
    /\ EmittedInStep("Auto Pump Start") = 1
    /\ LET e == CHOOSE i \in DOMAIN events' : events'[i].event_type = "Auto Pump Start"
       IN  IF state.pump_end_time /= None
           THEN events'[e].pump_interval_s = Max0(clock - state.pump_end_time)
           ELSE /\ events'[e].pump_interval_s = None
                /\ events'[e].gallons_per_hour = None
    /\ state'.pump_end_time = None

\* C27: every transition into Pumping by row 1 0 0 or 1 1 0 emits exactly one
\* AutoPumpStart event, carrying now - pump_end_time when pump_end_time was
\* set (and clearing it) and null interval and flow rate when it was not;
\* the new state is Pumping and commands the relay ON at the next relay tick.
C27_FillStartTurnsRelayOn ==
    [][FillStartStep => FillStartSequence /\ PumpOn(get_state(state'))]_vars

\* --------------------------------------------------------------------- C28
\* C28: a poll in state NotPumping that reads (0,0,1) records pump_end_time
\* only when it is unset; a pump_end_time that is set is left as it is.
C28_EndTimeRecordedOnce ==
    [][TableStep /\ state.current_state = "not_pumping" /\ Read001
          /\ state.pump_end_time /= None
         => state'.pump_end_time = state.pump_end_time]_vars

\* --------------------------------------------------------------------- C29
\* C29: the staleness timer is unset from a successful read to the end of
\* its poll; a failed read starts it only when it is unset; and the
\* staleness path raises fatal_error only when the timer has run for
\* adc_stale_fatal_seconds.  Hence fatal by staleness needs failures
\* throughout the preceding adc_stale_fatal_seconds, and one successful read
\* restarts the clock at the next failure.
C29_SuccessRestartsStaleClock ==
    /\ [](ctl_pc /= "idle" => state.adc_stale_started_at = None)
    /\ [][OkPollEndStep => state'.adc_stale_started_at = None]_vars
    /\ [][StalePollStep /\ state.adc_stale_started_at = None
            => state'.adc_stale_started_at = clock]_vars
    /\ [][StalePollStep /\ ~state.fatal_error /\ state'.fatal_error
            => /\ state.adc_stale_started_at /= None
               /\ clock - state.adc_stale_started_at >= adc_stale_fatal_seconds]_vars

\* The latest successful poll ended a streak of failures; a new streak began
\* later and has not turned fatal, although the first failure is
\* adc_stale_fatal_seconds or more in the past.
C29_Witness ==
    /\ ctl_pc = "idle"
    /\ poll_obs.pre.adc_stale_started_at /= None
    /\ state.adc_stale_started_at /= None
    /\ state.adc_stale_started_at > poll_obs.pre.adc_stale_started_at
    /\ clock > state.adc_stale_started_at
    /\ clock - poll_obs.pre.adc_stale_started_at >= adc_stale_fatal_seconds
    /\ ~state.fatal_error

\* --------------------------------------------------------------------- C30

\* The log sink is told what it received: _record_error is called with
\* messages of the controller, in every order and at every time.
MaxSinkEntries == 3

RecordedMessages == {"ADC cache stale", "Signal loop error"}

\* _record_error, lines 557-561: the payload handed to insert_error_log.
SinkPayloads(log, now) ==
    [i \in 1 .. Len(log) |-> [message |-> log[i], source_timestamp |-> now]]

\* One call of _record_error (lines 542-565).
RecordCall ==
    /\ Len(sink_entries) < MaxSinkEntries
    /\ \E message \in RecordedMessages :
          LET cx == _record_error(Ctx(state, error_log), message, clock)
          IN  /\ error_log' = cx.el
              /\ log_sink' = cx.log
              /\ sink_entries' = sink_entries \o SinkPayloads(cx.log, clock)
    /\ UNCHANGED <<clock, cfg_vars, pump_db, direct_read, bool_buffers, poll_obs, cache_vars, svc_vars, sd_vars, state, hold_vars,
                   signals, ctl_pc, hold_actions, events, episode_fatal_events, relay_vars>>

InitRecord == InitCfg({0}, TRUE, FALSE, {0})

NextRecord ==
    \/ Tick
    \/ RecordCall

SpecRecord == InitRecord /\ [][NextRecord]_vars

\* C30: the log sink never receives two entries with the same message text
\* less than 1 second apart, whatever the sequence of _record_error calls.
C30_NoRepeatWithinSecond ==
    \A i, j \in 1 .. Len(sink_entries) :
        (i < j /\ sink_entries[i].message = sink_entries[j].message)
            => sink_entries[j].source_timestamp - sink_entries[i].source_timestamp >= 1

\* --------------------------------------------------------------------- C31
\* Raw samples are voltages on a scale where adc_bool_threshold_v is
\* AdcThreshold.
MaxVolts == 2
AdcThreshold == 1
Volts == 0 .. MaxVolts

\* The votes of a sequence of raw voltages (read_signals line 449,
\* _compute_signal line 41).
HighVotes(samples) == Cardinality({i \in DOMAIN samples : samples[i] >= AdcThreshold})

\* MCP3008Reader.read_signals, lines 432-456, for one channel: debounce_samples
\* raw readings, true on ceil(debounce_samples / 2) votes.
DebouncedRead(samples) == HighVotes(samples) >= CeilHalf(DebounceSamples)

\* deque(maxlen = max(1, debounce_samples)).append: the oldest sample leaves a
\* full window.
DequeAppend(window, raw) ==
    LET w == Append(window, raw)
    IN  IF Len(w) > DebounceSamples THEN Tail(w) ELSE w

\* adc_service.main, lines 101-141, with its windows: one iteration reads one
\* raw value per channel, appends it to the channel's window and publishes
\* _compute_signal of the window.  manual_start and tank_empty are quiet here.
SampleWindow ==
    /\ \E raw \in Volts :
          LET buffers == [k \in SampledNames |->
                             DequeAppend(bool_buffers[k], IF k = "tank_full" THEN raw ELSE 0)]
          IN  /\ bool_buffers' = buffers
              /\ cache' = [readable |-> TRUE,
                           monotonic |-> clock,
                           signals |-> [k \in SampledNames |->
                                           _compute_signal([i \in DOMAIN buffers[k] |->
                                                               buffers[k][i] >= AdcThreshold])],
                           volts |-> SampledNames]
    /\ UNCHANGED <<clock, cfg_vars, pump_db, direct_read, sink_entries, poll_obs, pins, reader_out, svc_vars,
                   sd_vars, state, error_log, hold_vars, signals, ctl_pc, hold_actions, events,
                   episode_fatal_events, log_sink, relay_vars>>

\* MCP3008Reader.read_signals, lines 432-456: debounce_samples raw readings of
\* every channel; one channel is live here, the others are quiet.
DirectRead ==
    /\ \E c \in SignalNames, live \in [1 .. DebounceSamples -> Volts] :
          LET samples == [n \in SignalNames |->
                             IF n = c THEN live ELSE [i \in 1 .. DebounceSamples |-> 0]]
          IN  direct_read' = [done |-> TRUE,
                              samples |-> samples,
                              signals |-> [n \in SignalNames |-> DebouncedRead(samples[n])]]
    /\ UNCHANGED <<clock, cfg_vars, pump_db, bool_buffers, sink_entries, poll_obs, cache_vars, svc_vars,
                   sd_vars, state, error_log, hold_vars, signals, ctl_pc, hold_actions, events,
                   episode_fatal_events, log_sink, relay_vars>>

InitDebounce == InitCfg({0}, FALSE, FALSE, {0})

NextDebounce ==
    \/ SampleWindow
    \/ DirectRead

SpecDebounce == InitDebounce /\ [][NextDebounce]_vars

\* C31: in every snapshot, of the direct reader and of the sampling process
\* (its first snapshots included), a channel reads true exactly when at least
\* ceil(debounce_samples / 2) raw samples reach the threshold.
C31_MajorityOfDebounceSamples ==
    /\ direct_read.done =>
          \A n \in SignalNames :
              direct_read.signals[n] =
                  (HighVotes(direct_read.samples[n]) >= CeilHalf(DebounceSamples))
    /\ cache.readable =>
          \A k \in SampledNames :
              cache.signals[k] = (HighVotes(bool_buffers[k]) >= CeilHalf(DebounceSamples))

\* --------------------------------------------------------------------- C32
\* A missing key of the record: record.get gives None, which the NOT NULL
\* columns refuse.
Missing == ""

\* The row stored for a record (insert_pump_event, lines 203-210).
PumpRow(record, received_at) ==
    [event_type |-> record.event_type, source_timestamp |-> record.source_timestamp,
     pump_run_time_s |-> record.pump_run_time_s, pump_interval_s |-> record.pump_interval_s,
     gallons_per_hour |-> record.gallons_per_hour, received_at |-> received_at]

\* UNIQUE(event_type, source_timestamp), line 170.
SameKey(a, b) ==
    a.event_type = b.event_type /\ a.source_timestamp = b.source_timestamp

HasKey(rows, record) == \E i \in DOMAIN rows : SameKey(rows[i], record)

\* Mutant of PumpDatabase_insert_pump_event: INSERT OR REPLACE.
PumpDatabase_insert_pump_event_Replace(rows, record, received_at) ==
    IF record.event_type = Missing \/ record.source_timestamp = None
    THEN rows
    ELSE IF HasKey(rows, record)
         THEN [i \in DOMAIN rows |->
                  IF SameKey(rows[i], record) THEN PumpRow(record, received_at) ELSE rows[i]]
         ELSE Append(rows, PumpRow(record, received_at))

\* PumpDatabase.insert_pump_event, lines 202-223: INSERT OR IGNORE skips a row
\* that breaks a NOT NULL or the UNIQUE constraint.
PumpDatabase_insert_pump_event(rows, record, received_at) ==
    IF record.event_type = Missing \/ record.source_timestamp = None
    THEN rows
    ELSE IF HasKey(rows, record)
         THEN rows
         ELSE Append(rows, PumpRow(record, received_at))

MaxStamp == 1

\* The records handed to insert_pump_event.
PumpRecords ==
    [event_type : {"Pump Start", "Pump Stop", Missing},
     source_timestamp : (0 .. MaxStamp) \cup {None},
     pump_run_time_s : {None, 1},
     pump_interval_s : {None},
     gallons_per_hour : {None}]

\* One call of insert_pump_event; received_at is the time of the call.
DbInsert ==
    /\ \E record \in PumpRecords :
          pump_db' = [rows |-> PumpDatabase_insert_pump_event(pump_db.rows, record, clock),
                      last |-> record]
    /\ UNCHANGED <<clock, cfg_vars, bool_buffers, direct_read, sink_entries, poll_obs, cache_vars,
                   svc_vars, sd_vars, state, error_log, hold_vars, signals, ctl_pc, hold_actions,
                   events, episode_fatal_events, log_sink, relay_vars>>

InitDb == InitCfg({0}, FALSE, FALSE, {0})

NextDb ==
    \/ Tick
    \/ DbInsert

SpecDb == InitDb /\ [][NextDb]_vars

\* C32: insert_pump_event is idempotent on (event_type, source_timestamp): the
\* table holds one row per key; inserting a record whose key is stored
\* leaves the rows unchanged, and no insert ever changes a stored row.
C32_InsertIdempotentOnKey ==
    /\ [](\A i, j \in DOMAIN pump_db.rows :
            SameKey(pump_db.rows[i], pump_db.rows[j]) => i = j)
    /\ [][HasKey(pump_db.rows, pump_db'.last) => pump_db'.rows = pump_db.rows]_vars
    /\ [][/\ Len(pump_db'.rows) >= Len(pump_db.rows)
          /\ \A i \in DOMAIN pump_db.rows : pump_db'.rows[i] = pump_db.rows[i]]_vars

\* The latest record had a stored key and other fields, at a later time: the
\* stored row is still the first one.
C32_Witness ==
    \E i \in DOMAIN pump_db.rows :
        /\ SameKey(pump_db.rows[i], pump_db.last)
        /\ pump_db.rows[i].pump_run_time_s /= pump_db.last.pump_run_time_s
        /\ pump_db.rows[i].received_at < clock

\* --------------------------------------------------------------------- C33
\* C33: in the state right after the clear-fatal action has taken effect,
\* current_state = NotPumping, so that a relay tick reading that state
\* commands OFF.
C33_ClearLeavesPumpOff ==
    [][(ClearFatalStep /\ state.fatal_error /\ ~state'.fatal_error)
         => (state'.current_state = "not_pumping" /\ ~PumpOn(get_state(state')))]_vars

\* --------------------------------------------------------------------- C34
\* threading.Thread(...).start() of the controller loop: in
\* ControllerService.start and in the watchdog (controller.start).
CtlThreadStarted ==
    \/ stop_pc = "constructed" /\ stop_pc' = "running"
    \/ wd_pc = "ctl_start" /\ wd_pc' = "relay"

\* threading.Thread(...).start() of the relay loop.
RelayThreadStarted ==
    \/ stop_pc = "constructed" /\ stop_pc' = "running"
    \/ wd_pc = "relay_start" /\ wd_pc' = "wait"

\* C34: a controller thread is started only when no controller thread is
\* alive, and a relay thread only when no relay thread is alive; a thread
\* ends only by itself, so at most one thread of each loop runs at any
\* moment, whatever start(), stop() and the watchdog do.
C34_OneThreadPerLoop ==
    [][/\ CtlThreadStarted => ctl_pc = "done"
       /\ RelayThreadStarted => relay_pc = "done"]_vars

\* stop() went past the controller join while the controller thread was still
\* inside a poll (the join timed out), and the watchdog has restarted the
\* relay loop.
C34_Witness ==
    /\ stop_pc \notin {"constructed", "running", "ctl_stop", "ctl_join"}
    /\ ctl_pc \in {"holds", "apply", "table"}
    /\ wd_log.text = "Restarting relay loop"
    /\ relay_pc = "read"
    /\ wd_pc = "wait"

\* --------------------------------------------------------------------- C35
\* C35: fatal_error is cleared only by a poll in which the clear_fatal hold is
\* due: not latched, and read high for control_hold_seconds.  The latch is
\* released only by a low read, which also unsets the hold's start, and the
\* start is stamped only by the first high read after that.  So a channel
\* that stays high after its hold fired cannot clear a later fatal.
C35_StuckClearCannotClear ==
    /\ [][(state.fatal_error /\ ~state'.fatal_error)
            => (HoldsStep /\ HoldDue("clear_fatal"))]_vars
    /\ [][(control_hold_fired.clear_fatal /\ ~control_hold_fired'.clear_fatal)
            => (HoldsStep /\ ~signals.clear_fatal
                /\ control_hold_start'.clear_fatal = None)]_vars
    /\ [][(control_hold_start'.clear_fatal /= control_hold_start.clear_fatal
            /\ control_hold_start'.clear_fatal /= None)
            => (HoldsStep /\ signals.clear_fatal
                /\ control_hold_start.clear_fatal = None
                /\ control_hold_start'.clear_fatal = clock)]_vars

\* The error timer was running when the hold fired and has run on since (a
\* clear would have reset it), so the hold fired with fatal_error false; the
\* timer has since expired and the channel, still high, is read with
\* fatal_error true: the clear action is not invoked.
C35_Witness ==
    /\ ctl_pc = "apply"
    /\ signals.clear_fatal
    /\ control_hold_fired.clear_fatal
    /\ "clear_fatal" \notin hold_actions
    /\ state.fatal_error
    /\ state.error_started_at /= None
    /\ control_hold_start.clear_fatal /= None
    /\ state.error_started_at < control_hold_start.clear_fatal + control_hold_seconds
    /\ error_threshold > 0
    /\ events = <<>>

\* --------------------------------------------------------------------- C36
\* C36: read_signals returns a snapshot only if its timestamp is not later
\* than the reader's clock and at most adc_stale_seconds earlier; a payload
\* stamped ahead of the clock is rejected as stale.
C36_FuturePayloadRejected ==
    [][(ReadStep /\ reader_out'.err = "ok")
         => /\ cache.monotonic <= clock
            /\ clock - cache.monotonic <= AdcStaleSeconds]_vars

\* --------------------------------------------------------------------- C37
\* The snapshots of the restart specification: tank_full and clear_fatal.
RestartSnapshots ==
    {s \in SignalSnapshots({FALSE}, BOOLEAN) : ~s.manual_start /\ ~s.tank_empty}

InitRestart == InitCfg({MaxSvcThreshold}, FALSE, TRUE, {0, 1})

NextRestart ==
    \/ Tick
    \/ CtlReadStale
    \/ CtlReadOk(RestartSnapshots)
    \/ CtlHolds
    \/ CtlApplyEnter
    \/ CtlApplyTable
    \/ WdWake
    \/ WdCheckController
    \/ WdStartController
    \/ WdCheckRelay

\* The controller loop with a failing event sink, which ends its thread, the
\* clear_fatal channel, the clock and the watchdog that restarts the loop.
SpecRestart == InitRestart /\ [][NextRestart]_vars

\* C37: from the end of a controller thread to the first poll of the thread
\* the watchdog starts, PumpState and the control-hold timers keep their
\* values: a restart clears no fatal and re-arms no hold.
C37_RestartKeepsState ==
    [][ctl_pc = "done"
         => /\ state' = state
            /\ control_hold_start' = control_hold_start
            /\ control_hold_fired' = control_hold_fired]_vars

\* The controller thread ended in an escalation whose event the sink
\* refused (fatal_error set, fatal_sent not), with the clear_fatal hold
\* latched; the watchdog has started a new thread and both are as they were.
C37_Witness ==
    /\ ctl_pc = "idle"
    /\ wd_pc = "relay"
    /\ wd_log.text = "Restarting controller loop"
    /\ state.fatal_error
    /\ ~state.fatal_sent
    /\ control_hold_fired.clear_fatal
    /\ control_hold_start.clear_fatal /= None

\* --------------------------------------------------------------------- C38
\* C38: whenever the state mutex is free, fatal_sent = true implies
\* fatal_error = true.
C38_SentOnlyWhileFatal ==
    LockFree => (state.fatal_sent => state.fatal_error)

\* An escalation has just sent its FatalError event.
C38_Witness ==
    /\ ctl_pc = "idle"
    /\ state.fatal_sent
    /\ state.fatal_error
    /\ CountEvents(events, "Fatal Error") = 1

\* --------------------------------------------------------------------- C39
\* C39: whenever the state mutex is free, current_state = NotPumping implies
\* that pump_start_time is unset.
C39_IdleHasNoStartTime ==
    LockFree => (state.current_state = "not_pumping" => state.pump_start_time = None)

\* --------------------------------------------------------------------- C40
\* The events of one type in the event sink after the step.
EventsAfter(type) == {events'[i] : i \in {j \in DOMAIN events' : events'[j].event_type = type}}

\* C40: whenever current_state = ManualPumping, pump_end_time, last_fill_time
\* and last_flow_rate are unset.  So the AutoPumpStart of a ManualPumping ->
\* Pumping transition has null pump_interval_s and gallons_per_hour and
\* leaves last_flow_rate unset; last_flow_rate does not change while the
\* state stays Pumping, and a PumpStop carries the last_flow_rate of the state
\* it ends: null for a run begun manually.
C40_ManualRunHasNoFlowRate ==
    /\ [](LockFree /\ state.current_state = "manual_pumping"
            => /\ state.pump_end_time = None
               /\ state.last_fill_time = None
               /\ state.last_flow_rate = None)
    /\ [][(state.current_state = "manual_pumping" /\ state'.current_state = "pumping")
            => /\ \A e \in EventsAfter("Auto Pump Start") :
                      e.pump_interval_s = None /\ e.gallons_per_hour = None
               /\ state'.last_flow_rate = None]_vars
    /\ [][(state.current_state = "pumping" /\ state'.current_state = "pumping")
            => state'.last_flow_rate = state.last_flow_rate]_vars
    /\ [][StopsPumping
            => \A e \in EventsAfter("Pump Stop") :
                  e.gallons_per_hour = state.last_flow_rate]_vars

\* An earlier run ended and a manual run began; tank_full has just moved it
\* to Pumping with an AutoPumpStart that carries no interval.
C40_Witness ==
    /\ ctl_pc = "idle"
    /\ state.current_state = "pumping"
    /\ ~state.fatal_error
    /\ state.last_stop_time /= None
    /\ state.pump_start_time /= None
    /\ state.pump_start_time < clock
    /\ state.last_flow_rate = None
    /\ \E i \in DOMAIN events :
          /\ events[i].event_type = "Auto Pump Start"
          /\ events[i].pump_interval_s = None

=============================================================================
